---- MODULE Spec2Model ----
(***************************************************************************)
(* A model of the RegiusMark node's wire codec (RpcCodec, codec.rs) and of *)
(* its WebSocket connection handler (start_server / process_message /      *)
(* handle_request, server lib.rs).                                         *)
(*                                                                         *)
(* SpecCodec: a peer writes frames to a byte stream, the transport hands   *)
(* the bytes to the decoder in arbitrary chunks, and RpcCodec::decode is   *)
(* called on the accumulated buffer.                                       *)
(***************************************************************************)
EXTENDS Integers, Sequences, FiniteSets, TLC

VARIABLES
    wire,      \* bytes written by the peer, not yet handed to the decoder
    buf,       \* the decoder's input buffer (BytesMut)
    msg_len,   \* RpcCodec.msg_len
    res,       \* result of the last decode call
    frames,    \* history: the frames written so far, in order
    out,       \* history: every result of decode other than Ok(None), in order
    nfed,      \* history: number of bytes handed to the decoder so far
    op,        \* the last step taken: "init", "send", "feed", "decode"
    \* the server (lib.rs)
    conn,         \* per peer: "none", "open" or "closed"
    needs_pong,   \* per peer: WsState.needs_pong
    filter,       \* per peer: WsState.filter
    chan,         \* per peer: the messages in the connection's mpsc channel
    parked,       \* per peer: the channel's parked Senders, longest parked first
    reader,       \* per peer: the response the reader is about to send
    hb,           \* per peer: the heartbeat stream: "wait" for a tick or "send" a Ping
    due,          \* per peer: interval ticks that have come due and are not yet taken
    quiet,        \* per peer: 20 s intervals elapsed since the last inbound frame
    stalled,      \* per peer: the peer has stopped reading, the sink accepts nothing
    tasks,        \* per peer: the block range streaming tasks spawned for it
    sub_pool,     \* ServerData.sub_pool: the subscribed peers
    mempool,      \* the minter's pending transactions
    height,       \* the chain height
    ticked,       \* per peer: a heartbeat tick has been taken
    cleared,      \* per peer: a Binary, Ping or Pong frame was processed since the last tick
    last_sub,     \* per peer: history, the last Subscribe or Unsubscribe dispatched
    ev,           \* the last server step: [a |-> step, p |-> peer, k |-> frame kind,
                  \* m |-> the message a "frame" step processed]
    \* server start-up and the chain (lib.rs start, Blockchain)
    boot,         \* start(): its position, its options and its local is_empty
    ledger,       \* the Blockchain: block log, index status, token supply, owner
    \* asset arithmetic and text (asset/mod.rs)
    calc          \* the last Asset operation: its name, its operands, its result

codecVars == <<wire, buf, msg_len, res, frames, out, nfed, op>>

wsVars == <<conn, needs_pong, filter, chan, parked, reader, hb, due, quiet,
            stalled, tasks, sub_pool, mempool, height, ticked, cleared, last_sub, ev>>

startVars == <<boot, ledger>>

assetVars == <<calc>>

vars == <<wire, buf, msg_len, res, frames, out, nfed, op,
          conn, needs_pong, filter, chan, parked, reader, hb, due, quiet,
          stalled, tasks, sub_pool, mempool, height, ticked, cleared, last_sub, ev,
          boot, ledger, calc>>

----------------------------------------------------------------------------
(* Bounds of the model *)

\* number of frames a peer writes in one run
MaxFrames == 2

\* largest number of bytes the transport hands over in one read
MaxChunk == 3

\* capacity of a connection's outbound channel in the model; the program's
\* is mpsc::channel(32), the model fills a shorter one
ChanCap == 1

\* interval ticks the model lets pile up untaken
MaxDue == 2

\* the quiet intervals the model counts
MaxQuiet == 3

\* streaming tasks alive at once on one connection
MaxTasks == 1

\* the chain height of the model
ChainHeight == 1

\* blocks the minter produces in one run
MaxBlocks == 1

\* the largest height the chain of the start-up model grows to
MaxHeight == 2

----------------------------------------------------------------------------
(* Program constants *)

MAX_PAYLOAD_LEN == 5242880

\* the largest block filter SetBlockFilter accepts
MAX_FILTER_LEN == 16

\* RpcMsgType, RpcEventType, PeerType, IoType discriminants (net::rpc)
RpcMsgType_Error == 0
RpcMsgType_Event == 1
RpcMsgType_Handshake == 2
RpcMsgType_Broadcast == 3
RpcMsgType_Properties == 4
RpcMsgType_Block == 5
RpcMsgType_Balance == 6
RpcMsgType_TotalFee == 7
RpcEventType_TX == 0
RpcEventType_BLOCK == 1
PeerType_NODE == 0
PeerType_WALLET == 1
IoType_In == 0
IoType_Out == 1

----------------------------------------------------------------------------
(* Serializer primitives: big-endian integers over byte sequences *)

\* SubSeq that tolerates an empty range
Slice(s, from, to) == IF from > to THEN <<>> ELSE SubSeq(s, from, to)

Drop(s, n) == Slice(s, n + 1, Len(s))

Take(s, n) == Slice(s, 1, n)

RECURSIVE be_value(_)
\* the unsigned big-endian value of a byte sequence
be_value(b) ==
    IF Len(b) = 0 THEN 0
    ELSE be_value(Take(b, Len(b) - 1)) * 256 + b[Len(b)]

push_u32(n) ==
    << (n \div 16777216) % 256, (n \div 65536) % 256, (n \div 256) % 256, n % 256 >>

push_u64(n) == <<0, 0, 0, 0>> \o push_u32(n)

\* push_bytes: u32 length, then the bytes
push_bytes(b) == push_u32(Len(b)) \o b

\* push_pub_key: the raw 32 bytes of the key
push_pub_key(k) == k

\* push_asset: the i64 amount
push_asset(a) == push_u64(a)

u32_from_buf(b) == be_value(Take(b, 4))

Zeros(n) == [i \in 1..n |-> 0]

----------------------------------------------------------------------------
(* Transactions and blocks on the wire.  A transaction value is the tuple   *)
(* <<variant, fee, timestamp, nsig>>; a block value is the tuple            *)
(* <<height, timestamp, nsig, ntx>> followed by its transactions' tuples.   *)

TxHeaderLen == 18

SigPairLen == 96

BlockHeaderLen == 80

\* variant tag, fee, timestamp, u8 sig_count, then the signature pairs
encode_with_sigs(tx) ==
    <<tx[1]>> \o push_asset(tx[2]) \o push_u64(tx[3]) \o <<tx[4]>>
        \o Zeros(SigPairLen * tx[4])

\* TxVariant::decode_with_sigs on the unread bytes b: None on a short read or
\* an unknown variant
decode_with_sigs(b) ==
    IF Len(b) < TxHeaderLen THEN [ok |-> FALSE, val |-> <<>>, used |-> 0]
    ELSE IF b[1] \notin 0..3 \/ b[TxHeaderLen] > 8
              \/ Len(b) < TxHeaderLen + SigPairLen * b[TxHeaderLen]
         THEN [ok |-> FALSE, val |-> <<>>, used |-> 0]
         ELSE [ok |-> TRUE,
               val |-> << b[1], be_value(SubSeq(b, 2, 9)),
                          be_value(SubSeq(b, 10, 17)), b[TxHeaderLen] >>,
               used |-> TxHeaderLen + SigPairLen * b[TxHeaderLen]]

RECURSIVE encode_txs(_)
encode_txs(flat) ==
    IF Len(flat) < 4 THEN <<>>
    ELSE encode_with_sigs(Take(flat, 4)) \o encode_txs(Drop(flat, 4))

\* header, sig count + sigs, u32 tx_count, each tx via encode_with_sigs
encode_with_tx(blk) ==
    push_u64(blk[1]) \o push_u64(blk[2]) \o Zeros(32) \o Zeros(32)
        \o <<blk[3]>> \o Zeros(SigPairLen * blk[3])
        \o push_u32(blk[4]) \o encode_txs(Drop(blk, 4))

RECURSIVE decode_txs(_, _)
\* n transactions read one after the other from b
decode_txs(b, n) ==
    IF n = 0 THEN [ok |-> TRUE, val |-> <<>>, used |-> 0]
    ELSE LET t == decode_with_sigs(b) IN
         IF ~t.ok THEN [ok |-> FALSE, val |-> <<>>, used |-> 0]
         ELSE LET r == decode_txs(Drop(b, t.used), n - 1) IN
              IF ~r.ok THEN [ok |-> FALSE, val |-> <<>>, used |-> 0]
              ELSE [ok |-> TRUE, val |-> t.val \o r.val, used |-> t.used + r.used]

\* SignedBlock::decode_with_tx on the unread bytes b: None on a short read
decode_with_tx(b) ==
    IF Len(b) < BlockHeaderLen + 1 THEN [ok |-> FALSE, val |-> <<>>, used |-> 0]
    ELSE LET nsig == b[BlockHeaderLen + 1]
             off  == BlockHeaderLen + 1 + SigPairLen * nsig
         IN IF nsig > 8 \/ Len(b) < off + 4
            THEN [ok |-> FALSE, val |-> <<>>, used |-> 0]
            ELSE LET ntx == be_value(SubSeq(b, off + 1, off + 4))
                     txs == decode_txs(Drop(b, off + 4), ntx)
                 IN IF ~txs.ok THEN [ok |-> FALSE, val |-> <<>>, used |-> 0]
                    ELSE [ok |-> TRUE,
                          val |-> << be_value(SubSeq(b, 1, 8)),
                                     be_value(SubSeq(b, 9, 16)), nsig, ntx >>
                                  \o txs.val,
                          used |-> off + 4 + txs.used]

\* Cursor::take_pub_key: 32 raw bytes, None on a short read
take_pub_key(b) ==
    IF Len(b) < 32 THEN [ok |-> FALSE, val |-> <<>>, used |-> 0]
    ELSE [ok |-> TRUE, val |-> Take(b, 32), used |-> 32]

\* Cursor::take_asset: the i64 amount, None on a short read
take_asset(b) ==
    IF Len(b) < 8 THEN [ok |-> FALSE, val |-> <<>>, used |-> 0]
    ELSE [ok |-> TRUE, val |-> <<be_value(Take(b, 8))>>, used |-> 8]

----------------------------------------------------------------------------
(* RpcPayload and RpcMsg.  A message is [t, sub, data]: t the variant, sub  *)
(* the IO direction, peer type or event type, data its content.             *)

Msg(t, sub, data) == [t |-> t, sub |-> sub, data |-> data]

\* RpcPayload.msg = None
NoMsg == Msg("None", "", <<>>)

RpcPayload(id, msg) == [id |-> id, msg |-> msg]

----------------------------------------------------------------------------
(* RpcCodec::encode *)

\* a tag of its own for TotalFee
totalfee_tag_own == RpcMsgType_TotalFee

\* the tag byte the TotalFee arm of encode pushes
totalfee_tag == RpcMsgType_Balance

\* the payload bytes encode pushes after the id for message msg
encode_msg(msg) ==
    CASE msg.t = "None" -> <<>>
      [] msg.t = "Error" ->
            push_u32(Len(msg.data)) \o push_bytes(msg.data)
      [] msg.t = "Event" ->
            <<RpcMsgType_Event>> \o
            (IF msg.sub = "TX"
             THEN <<RpcEventType_TX>> \o encode_with_sigs(msg.data)
             ELSE <<RpcEventType_BLOCK>> \o encode_with_tx(msg.data))
      [] msg.t = "Handshake" ->
            <<RpcMsgType_Handshake,
              IF msg.sub = "NODE" THEN PeerType_NODE ELSE PeerType_WALLET>>
      [] msg.t = "Broadcast" ->
            <<RpcMsgType_Broadcast>> \o encode_with_sigs(msg.data)
      [] msg.t = "Properties" ->
            <<RpcMsgType_Properties>> \o
            (IF msg.sub = "Out"
             THEN <<IoType_Out>> \o push_u64(msg.data[1])
             ELSE <<IoType_In>>)
      [] msg.t = "Block" ->
            <<RpcMsgType_Block>> \o
            (IF msg.sub = "In"
             THEN <<IoType_In>> \o push_u64(msg.data[1])
             ELSE <<IoType_Out>> \o encode_with_tx(msg.data))
      [] msg.t = "Balance" ->
            <<RpcMsgType_Balance>> \o
            (IF msg.sub = "In"
             THEN <<IoType_In>> \o push_pub_key(msg.data)
             ELSE <<IoType_Out>> \o push_asset(msg.data[1]) \o push_asset(msg.data[2]))
      [] msg.t = "TotalFee" ->
            <<totalfee_tag>> \o
            (IF msg.sub = "In"
             THEN <<IoType_In>> \o push_pub_key(msg.data)
             ELSE <<IoType_Out>> \o push_asset(msg.data[1]) \o push_asset(msg.data[2]))

\* the payload of the frame: the id, then the message
encode_payload(pl) == push_u32(pl.id) \o encode_msg(pl.msg)

\* encode with the length prefix counting the payload only
encode_payload_len(pl) == push_u32(Len(encode_payload(pl))) \o encode_payload(pl)

\* the bytes encode appends to the output buffer for payload pl
encode(pl) == push_u32(4 + Len(encode_payload(pl))) \o encode_payload(pl)

----------------------------------------------------------------------------
(* RpcCodec::decode *)

\* the results of one decode call
DecNone == [kind |-> "None", id |-> 0, msg |-> NoMsg, err |-> ""]

DecOk(id, msg) == [kind |-> "Msg", id |-> id, msg |-> msg, err |-> ""]

DecErr(e) == [kind |-> "Err", id |-> 0, msg |-> NoMsg, err |-> e]

\* a Buf read past the end of the cursor panics
DecPanic == [kind |-> "Panic", id |-> 0, msg |-> NoMsg, err |-> "panic"]

\* the Error arm: body is what follows the tag byte
decode_error(id, body) ==
    IF Len(body) < 4 THEN DecPanic
    ELSE IF be_value(Take(body, 4)) > MAX_PAYLOAD_LEN
         THEN DecErr("error string too large")
         \* read_exact into a Vec of length 0 reads nothing
         ELSE DecOk(id, Msg("Error", "", <<>>))

decode_event(id, body) ==
    IF Len(body) < 1 THEN DecPanic
    ELSE IF body[1] = RpcEventType_TX
         THEN LET tx == decode_with_sigs(Drop(body, 1)) IN
              IF tx.ok THEN DecOk(id, Msg("Event", "TX", tx.val))
              ELSE DecErr("failed to decode tx")
    ELSE IF body[1] = RpcEventType_BLOCK
         THEN LET blk == decode_with_tx(Drop(body, 1)) IN
              IF blk.ok THEN DecOk(id, Msg("Event", "BLOCK", blk.val))
              ELSE DecErr("failed to decode signed block")
    ELSE DecErr("invalid event type")

decode_handshake(id, body) ==
    IF Len(body) < 1 THEN DecPanic
    ELSE IF body[1] = PeerType_NODE THEN DecOk(id, Msg("Handshake", "NODE", <<>>))
    ELSE IF body[1] = PeerType_WALLET THEN DecOk(id, Msg("Handshake", "WALLET", <<>>))
    ELSE DecErr("invalid peer type")

decode_broadcast(id, body) ==
    LET tx == decode_with_sigs(body) IN
    IF tx.ok THEN DecOk(id, Msg("Broadcast", "", tx.val))
    ELSE DecErr("failed to decode broadcast tx")

decode_properties(id, body) ==
    IF Len(body) < 1 THEN DecPanic
    ELSE IF body[1] = IoType_In THEN DecOk(id, Msg("Properties", "In", <<>>))
    ELSE IF body[1] = IoType_Out
         THEN IF Len(body) < 9 THEN DecPanic
              ELSE DecOk(id, Msg("Properties", "Out", <<be_value(SubSeq(body, 2, 9))>>))
    ELSE DecErr("invalid io type")

decode_block(id, body) ==
    IF Len(body) < 1 THEN DecPanic
    ELSE IF body[1] = IoType_In
         THEN IF Len(body) < 9 THEN DecPanic
              ELSE DecOk(id, Msg("Block", "In", <<be_value(SubSeq(body, 2, 9))>>))
    ELSE IF body[1] = IoType_Out
         THEN LET blk == decode_with_tx(Drop(body, 1)) IN
              IF blk.ok THEN DecOk(id, Msg("Block", "Out", blk.val))
              ELSE DecErr("failed to decode block")
    ELSE DecErr("invalid io type")

\* the Balance and TotalFee arms differ only in the variant they build
decode_balance(id, body, variant) ==
    IF Len(body) < 1 THEN DecPanic
    ELSE IF body[1] = IoType_In
         THEN LET addr == take_pub_key(Drop(body, 1)) IN
              IF addr.ok THEN DecOk(id, Msg(variant, "In", addr.val))
              ELSE DecErr("failed to decode public key")
    ELSE IF body[1] = IoType_Out
         THEN LET gold == take_asset(Drop(body, 1)) IN
              IF ~gold.ok THEN DecErr("failed to decode gold asset")
              ELSE LET silver == take_asset(Drop(body, 1 + gold.used)) IN
                   IF ~silver.ok THEN DecErr("failed to decode silver asset")
                   ELSE DecOk(id, Msg(variant, "Out", gold.val \o silver.val))
    ELSE DecErr("invalid io type")

\* decode, from the cursor over the split payload p on: the id, the tag, the body
decode_payload(p) ==
    IF Len(p) < 4 THEN DecPanic
    ELSE LET id == be_value(Take(p, 4)) IN
         IF Len(p) = 4 THEN DecOk(id, NoMsg)
         ELSE LET t == p[5]
                  body == Drop(p, 5)
              IN CASE t = RpcMsgType_Error -> decode_error(id, body)
                   [] t = RpcMsgType_Event -> decode_event(id, body)
                   [] t = RpcMsgType_Handshake -> decode_handshake(id, body)
                   [] t = RpcMsgType_Broadcast -> decode_broadcast(id, body)
                   [] t = RpcMsgType_Properties -> decode_properties(id, body)
                   [] t = RpcMsgType_Block -> decode_block(id, body)
                   [] t = RpcMsgType_Balance -> decode_balance(id, body, "Balance")
                   [] t = RpcMsgType_TotalFee -> decode_balance(id, body, "TotalFee")
                   [] OTHER -> DecErr("invalid msg type")

\* the upper length check off by one
length_error_exclusive(n) ==
    IF n <= 4 THEN "payload must be >4 bytes"
    ELSE IF n >= MAX_PAYLOAD_LEN THEN "payload must be <= MAX_PAYLOAD_LEN bytes"
    ELSE ""

\* the length check on a freshly read prefix n: the error it raises, or ""
length_error(n) ==
    IF n <= 4 THEN "payload must be >4 bytes"
    ELSE IF n > MAX_PAYLOAD_LEN THEN "payload must be <= MAX_PAYLOAD_LEN bytes"
    ELSE ""

\* the prefix stored as it was read
stored_len_total(n) == n

\* msg_len for an accepted prefix n: the length of the payload
stored_len(n) == n - 4

\* a whole payload of ml bytes is buffered
payload_ready(ml, b) == ml # 0 /\ Len(b) >= ml

\* msg_len left as it was
msg_len_kept(ml) == ml

\* msg_len once the payload has been split off the buffer
msg_len_after_split(ml) == 0

\* one call of decode with self.msg_len = ml on buffer b:
\* the result, and the msg_len and buffer it leaves
decode(ml, b) ==
    LET readsLen == ml = 0 /\ Len(b) >= 4
        n   == u32_from_buf(b)
        b1  == IF readsLen THEN Drop(b, 4) ELSE b
        ml1 == IF ~readsLen THEN ml
               ELSE IF length_error(n) # "" THEN n ELSE stored_len(n)
    IN IF readsLen /\ length_error(n) # ""
       THEN [res |-> DecErr(length_error(n)), msg_len |-> ml1, buf |-> b1]
       ELSE IF payload_ready(ml1, b1)
            THEN [res |-> decode_payload(Take(b1, ml1)),
                  msg_len |-> msg_len_after_split(ml1),
                  buf |-> Drop(b1, ml1)]
            ELSE [res |-> DecNone, msg_len |-> ml1, buf |-> b1]

----------------------------------------------------------------------------
(* The inputs of the codec model *)

Key32 == [i \in 1..32 |-> 3]

Tx0 == <<1, 2, 9, 0>>

Blk0 == <<4, 9, 0, 0>>

Blk1 == <<5, 9, 0, 1>> \o Tx0

\* payloads written again and again on a connection
CommonPayloads ==
    { RpcPayload(7, NoMsg),
      RpcPayload(1, Msg("Handshake", "WALLET", <<>>)),
      RpcPayload(2, Msg("Properties", "In", <<>>)) }

\* one payload of every other shape
RarePayloads ==
    { RpcPayload(1, Msg("Handshake", "NODE", <<>>)),
      RpcPayload(2, Msg("Properties", "Out", <<3>>)),
      RpcPayload(3, Msg("Block", "In", <<5>>)),
      RpcPayload(16909060, Msg("Block", "In", <<197121>>)),
      RpcPayload(3, Msg("Block", "Out", Blk0)),
      RpcPayload(4, Msg("Balance", "In", Key32)),
      RpcPayload(4, Msg("Balance", "Out", <<10, 20>>)),
      RpcPayload(5, Msg("TotalFee", "In", Key32)),
      RpcPayload(5, Msg("TotalFee", "Out", <<10, 20>>)),
      RpcPayload(6, Msg("Error", "", <<>>)),
      RpcPayload(6, Msg("Error", "", <<97, 98>>)),
      RpcPayload(8, Msg("Event", "TX", Tx0)),
      RpcPayload(8, Msg("Event", "BLOCK", Blk1)),
      RpcPayload(9, Msg("Broadcast", "", Tx0)) }

\* a frame built by hand: the length prefix of the payload p, then p
Framed(p) == push_u32(4 + Len(p)) \o p

\* frames no encoder produces: bad lengths, short payloads, truncated or
\* invalid tag bodies, an Error frame in the documented layout
RawFrames ==
    { push_u32(0), push_u32(3), push_u32(4),
      push_u32(5) \o <<9>>, push_u32(6) \o <<0, 1>>, push_u32(7) \o <<0, 0, 1>>,
      push_u32(MAX_PAYLOAD_LEN + 1),
      push_u32(MAX_PAYLOAD_LEN) \o <<0, 0, 0, 1>>,
      Framed(push_u32(1) \o <<RpcMsgType_Properties>>),
      Framed(push_u32(1) \o <<RpcMsgType_Properties, IoType_Out, 0, 0, 0>>),
      Framed(push_u32(1) \o <<RpcMsgType_Block, IoType_In, 0, 0, 0, 0, 0, 0, 5>>),
      Framed(push_u32(1) \o <<RpcMsgType_Block, IoType_Out, 0, 0>>),
      Framed(push_u32(1) \o <<RpcMsgType_Handshake>>),
      Framed(push_u32(1) \o <<RpcMsgType_Event>>),
      Framed(push_u32(1) \o <<RpcMsgType_Balance>>),
      Framed(push_u32(1) \o <<RpcMsgType_TotalFee>>),
      Framed(push_u32(1) \o <<RpcMsgType_Error, 0, 0>>),
      Framed(push_u32(1) \o <<RpcMsgType_Error>> \o push_u32(2) \o <<97, 98>>),
      Framed(push_u32(1) \o <<RpcMsgType_Error>> \o push_u32(0)),
      Framed(push_u32(1) \o <<RpcMsgType_Error>> \o push_u32(MAX_PAYLOAD_LEN + 1)),
      Framed(push_u32(1) \o <<9>>),
      Framed(push_u32(1) \o <<RpcMsgType_Properties, 2>>),
      Framed(push_u32(1) \o <<RpcMsgType_Handshake, 5>>),
      Framed(push_u32(1) \o <<RpcMsgType_Handshake, PeerType_WALLET, 77>>),
      Framed(push_u32(1) \o <<RpcMsgType_Event, 7>>),
      Framed(push_u32(1) \o <<RpcMsgType_Event, RpcEventType_TX, 1, 0>>),
      Framed(push_u32(1) \o <<RpcMsgType_Broadcast, 9>>),
      Framed(push_u32(1) \o <<RpcMsgType_Balance, IoType_In, 3, 3, 3>>),
      Framed(push_u32(1) \o <<RpcMsgType_Balance, IoType_Out>> \o push_u64(10)),
      Framed(push_u32(1) \o <<RpcMsgType_TotalFee, IoType_Out>>
                 \o push_u64(10) \o push_u64(20)) }

\* a frame as the history records it: its bytes, and the payload it encodes
\* (enc is FALSE for a frame built by hand)
Frame(bytes, enc, pl) == [bytes |-> bytes, enc |-> enc, pl |-> pl]

NoPayload == RpcPayload(0, NoMsg)

IsCommon(f) == f.enc /\ f.pl \in CommonPayloads

\* a run holds at most one frame that is not a common one
MayWrite(f) ==
    /\ Len(frames) < MaxFrames
    /\ IsCommon(f) \/ \A i \in 1..Len(frames) : IsCommon(frames[i])

----------------------------------------------------------------------------
(* SpecCodec: the peer, the transport and the decoder *)

InitCodec ==
    /\ wire = <<>>
    /\ buf = <<>>
    /\ msg_len = 0
    /\ res = DecNone
    /\ frames = <<>>
    /\ out = <<>>
    /\ nfed = 0
    /\ op = "init"

Alive == res.kind # "Panic"

\* the peer encodes payload pl and writes the frame
Encode(pl) ==
    /\ Alive
    /\ MayWrite(Frame(encode(pl), TRUE, pl))
    /\ wire' = wire \o encode(pl)
    /\ frames' = Append(frames, Frame(encode(pl), TRUE, pl))
    /\ op' = "send"
    /\ UNCHANGED <<wsVars, startVars, assetVars>>
    /\ UNCHANGED <<buf, msg_len, res, out, nfed>>

\* the peer writes bytes no encoder produced
WriteRaw(bytes) ==
    /\ Alive
    /\ MayWrite(Frame(bytes, FALSE, NoPayload))
    /\ wire' = wire \o bytes
    /\ frames' = Append(frames, Frame(bytes, FALSE, NoPayload))
    /\ op' = "send"
    /\ UNCHANGED <<wsVars, startVars, assetVars>>
    /\ UNCHANGED <<buf, msg_len, res, out, nfed>>

\* the transport reads k bytes into the decoder's buffer
Feed(k) ==
    /\ Alive
    /\ k <= Len(wire)
    /\ buf' = buf \o Take(wire, k)
    /\ wire' = Drop(wire, k)
    /\ nfed' = nfed + k
    /\ op' = "feed"
    /\ UNCHANGED <<wsVars, startVars, assetVars>>
    /\ UNCHANGED <<msg_len, res, frames, out>>

\* RpcCodec::decode is called on the buffer
Decode ==
    /\ Alive
    /\ LET d == decode(msg_len, buf) IN
        /\ res' = d.res
        /\ msg_len' = d.msg_len
        /\ buf' = d.buf
        /\ out' = IF d.res.kind = "None" THEN out ELSE Append(out, d.res)
    /\ op' = "decode"
    /\ UNCHANGED <<wsVars, startVars, assetVars>>
    /\ UNCHANGED <<wire, frames, nfed>>

NextCodec ==
    \/ \E pl \in CommonPayloads \cup RarePayloads : Encode(pl)
    \/ \E bytes \in RawFrames : WriteRaw(bytes)
    \/ \E k \in 1..MaxChunk : Feed(k)
    \/ Decode

----------------------------------------------------------------------------
(* Properties of the codec, checked under SpecCodec *)

\* the frame's prefix is its own length, within the accepted range, and its
\* payload holds at least the id: decode consumes exactly this frame
LengthFramed(f) ==
    /\ Len(f.bytes) >= 8
    /\ be_value(Take(f.bytes, 4)) = Len(f.bytes)
    /\ Len(f.bytes) <= 5242880

\* the message the frame's payload holds, read in one piece
WholeFrameResult(f) == decode_payload(Drop(f.bytes, 4))

ValidFrame(f) == LengthFramed(f) /\ WholeFrameResult(f).kind = "Msg"

RECURSIVE EndOfFrame(_)
\* the offset in the byte stream at which frame i ends
EndOfFrame(i) == IF i = 0 THEN 0 ELSE EndOfFrame(i - 1) + Len(frames[i].bytes)

\* the number of frames the decoder has been handed completely
FramesFed == Cardinality({i \in 1..Len(frames) : EndOfFrame(i) <= nfed})

\* out[i] is the result for frames[i]: every frame up to i is length-framed
Aligned(i) == i <= Len(frames) /\ \A j \in 1..i : LengthFramed(frames[j])

\* C1 (as claimed): every decode call returns a message, "need more data" or
\* a decode error, and never panics, whatever the bytes and their chunking.
C1_DecodeNeverPanics == res.kind \in {"None", "Msg", "Err"}

\* C2: for a stream of valid frames, however it is chunked, the results of
\* decode are exactly one message per frame, in frame order, each the message
\* its frame holds; no message is returned before its frame is complete, and
\* decode answers "need more data" only while the current frame is incomplete.
C2_ChunkingIndependent ==
    (\A i \in 1..Len(frames) : ValidFrame(frames[i])) =>
        /\ Len(out) <= FramesFed
        /\ \A i \in 1..Len(out) : out[i] = WholeFrameResult(frames[i])
        /\ (op = "decode" /\ res.kind = "None") => Len(out) = FramesFed

\* two valid frames, both decoded, the second fed after the first was returned
C2_Witness ==
    /\ Len(frames) = 2
    /\ \A i \in 1..2 : ValidFrame(frames[i])
    /\ Len(out) = 2
    /\ out[1] # out[2]
    /\ op = "decode"

\* C3 (as claimed): a decode call that returns Ok(None) leaves the input
\* buffer unchanged.
C3_NoneLeavesBufferUnchanged ==
    [][(op' = "decode" /\ res'.kind = "None") => buf' = buf]_vars

\* C3 (amended): a decode call that returns Ok(None) consumes no payload byte:
\* it leaves buffer and msg_len unchanged, or, when no length was pending and
\* four bytes are buffered, it removes exactly the 4-byte prefix and keeps the
\* payload length it announces in msg_len.
C3_NoneConsumesOnlyPrefix ==
    [][(op' = "decode" /\ res'.kind = "None") =>
          \/ buf' = buf /\ msg_len' = msg_len
          \/ /\ msg_len = 0
             /\ Len(buf) >= 4
             /\ buf' = Drop(buf, 4)
             /\ msg_len' = be_value(Take(buf, 4)) - 4]_vars

\* decode has returned Ok(None) with a length read and its payload incomplete
C3_Witness ==
    /\ op = "decode"
    /\ res.kind = "None"
    /\ msg_len # 0
    /\ Len(buf) > 0

IsLengthError(r) ==
    /\ r.kind = "Err"
    /\ r.err \in {"payload must be >4 bytes", "payload must be <= MAX_PAYLOAD_LEN bytes"}

\* C4: a decode call that reads a length prefix returns a length error exactly
\* when the declared total_length is below 5 or above 5,242,880.
C4_LengthBounds ==
    [][(op' = "decode" /\ msg_len = 0 /\ Len(buf) >= 4) =>
          LET n == be_value(Take(buf, 4)) IN
          IsLengthError(res') <=> (n < 5 \/ n > 5242880)]_vars

\* a frame declaring exactly 5,242,880 bytes was accepted and awaits its payload
C4_Witness ==
    /\ op = "decode"
    /\ res.kind = "None"
    /\ msg_len = 5242880 - 4

\* the tag bytes the layout allows for a variant (TotalFee shares Balance's)
TagsOf(t) ==
    CASE t = "Error" -> {RpcMsgType_Error}
      [] t = "Event" -> {RpcMsgType_Event}
      [] t = "Handshake" -> {RpcMsgType_Handshake}
      [] t = "Broadcast" -> {RpcMsgType_Broadcast}
      [] t = "Properties" -> {RpcMsgType_Properties}
      [] t = "Block" -> {RpcMsgType_Block}
      [] t = "Balance" -> {RpcMsgType_Balance}
      [] t = "TotalFee" -> {RpcMsgType_Balance, RpcMsgType_TotalFee}
      [] OTHER -> {}

\* C5 (as claimed): every encoded frame of a payload with a message has the
\* prefix 4 + payload length, and its payload is the u32 id, one tag byte and
\* the body; for Error the body is u32 len followed by the len bytes.
C5_EncodedLayout ==
    \A i \in 1..Len(frames) :
        (frames[i].enc /\ frames[i].pl.msg.t # "None") =>
            LET b == frames[i].bytes
                m == frames[i].pl.msg
            IN /\ Len(b) >= 9
               /\ be_value(Take(b, 4)) = Len(b)
               /\ SubSeq(b, 5, 8) = push_u32(frames[i].pl.id)
               /\ b[9] \in TagsOf(m.t)
               /\ m.t = "Error" => Drop(b, 9) = push_u32(Len(m.data)) \o m.data

\* a frame in the documented Error layout: id, Error tag, u32 len, len bytes
IsErrorFrame(f) ==
    /\ LengthFramed(f)
    /\ Len(f.bytes) >= 13
    /\ f.bytes[9] = RpcMsgType_Error
    /\ be_value(SubSeq(f.bytes, 10, 13)) = Len(f.bytes) - 13

\* C6 (as claimed): decoding a payload tagged Error whose body is u32 len and
\* len bytes yields an Error message carrying exactly those bytes.
C6_ErrorStringDecoded ==
    \A i \in 1..Len(out) :
        (Aligned(i) /\ IsErrorFrame(frames[i])) =>
            out[i] = DecOk(be_value(SubSeq(frames[i].bytes, 5, 8)),
                           Msg("Error", "", Drop(frames[i].bytes, 13)))

\* C7: the frame encode writes for TotalFee(x) is byte for byte the frame it
\* writes for Balance(x) with the same id, and decode returns it as Balance(x).
C7_TotalFeeEncodedAsBalance ==
    \A i \in 1..Len(frames) :
        (frames[i].enc /\ frames[i].pl.msg.t = "TotalFee") =>
            LET pl == frames[i].pl
                asBalance == Msg("Balance", pl.msg.sub, pl.msg.data)
            IN /\ frames[i].bytes = encode(RpcPayload(pl.id, asBalance))
               /\ (i <= Len(out) /\ Aligned(i)) => out[i] = DecOk(pl.id, asBalance)

\* an encoded TotalFee frame has been decoded
C7_Witness ==
    /\ Len(frames) >= 1
    /\ frames[1].enc
    /\ frames[1].pl.msg = Msg("TotalFee", "Out", <<10, 20>>)
    /\ Len(out) >= 1
    /\ out[1].msg.t = "Balance"

\* the payloads of C30: keep-alive, Handshake, Properties, Block-In, Balance
SimplePayload(pl) ==
    \/ pl.msg = NoMsg
    \/ pl.msg.t \in {"Handshake", "Properties", "Balance"}
    \/ pl.msg.t = "Block" /\ pl.msg.sub = "In"

\* C30: a fresh decoder given the frame encode(p) of a keep-alive, Handshake,
\* Properties, Block-In or Balance payload p returns p, same id and same
\* message, and consumes exactly the whole frame; the keep-alive's frame has
\* total_length 8.
C30_SimplePayloadsRoundTrip ==
    /\ \A i \in 1..Len(frames) :
          (frames[i].enc /\ SimplePayload(frames[i].pl)) =>
              LET pl == frames[i].pl
                  d == decode(0, frames[i].bytes)
              IN /\ d.res = DecOk(pl.id, pl.msg)
                 /\ d.buf = <<>>
                 /\ d.msg_len = 0
                 /\ pl.msg = NoMsg =>
                       (Len(frames[i].bytes) = 8 /\ u32_from_buf(frames[i].bytes) = 8)
    /\ (Len(frames) >= 1 /\ frames[1].enc /\ SimplePayload(frames[1].pl)) =>
          /\ Len(out) >= 1 => out[1] = DecOk(frames[1].pl.id, frames[1].pl.msg)
          /\ (Len(out) = 1 /\ nfed = Len(frames[1].bytes)) =>
                (buf = <<>> /\ msg_len = 0)

\* the frame of a Block-In payload was fed to a fresh decoder and decoded
C30_Witness ==
    /\ Len(frames) = 1
    /\ frames[1].enc
    /\ frames[1].pl = RpcPayload(16909060, Msg("Block", "In", <<197121>>))
    /\ frames[1].bytes = <<0, 0, 0, 18, 1, 2, 3, 4, RpcMsgType_Block, IoType_In,
                           0, 0, 0, 0, 0, 3, 2, 1>>
    /\ nfed = Len(frames[1].bytes)
    /\ out = <<DecOk(16909060, Msg("Block", "In", <<197121>>))>>
    /\ buf = <<>>
    /\ op = "decode"

\* C31: after decode has returned a length error, no later decode call frames
\* the following bytes with the rejected length (which decode has left in
\* msg_len): the call after the error neither returns a message built from
\* that many bytes nor panics on them.
C31_RejectedLengthNotFramed ==
    [][(/\ op' = "decode"
        /\ IsLengthError(res)
        /\ payload_ready(msg_len, buf)) =>
           ~(/\ res'.kind \in {"Msg", "Panic"}
             /\ res' = decode_payload(Take(buf, msg_len))
             /\ buf' = Drop(buf, msg_len))]_vars

----------------------------------------------------------------------------
(* The server: connections, process_message, handle_request, heartbeat *)

Peers == {"p1", "p2"}

\* u32::max_value(), the reserved request id, as its four bytes
u32_max_value == <<255, 255, 255, 255>>

\* Option<BlockFilter>: some is FALSE for None
Filter(some, addrs) == [some |-> some, addrs |-> addrs]

NoFilter == Filter(FALSE, {})

\* a request body: t the variant, a and b its heights, addrs its filter,
\* tx its transaction or address
Req(t, a, b, addrs, tx) == [t |-> t, a |-> a, b |-> b, addrs |-> addrs, tx |-> tx]

\* an incoming WebSocket message.  For a Binary message: what
\* Request::deserialize makes of its bytes (deser "ok" with the request's id
\* and body, or "err"), and whether bytes are left after the request
InMsg(kind, deser, id, req, trailing) ==
    [kind |-> kind, deser |-> deser, id |-> id, req |-> req, trailing |-> trailing]

NoReq == Req("", 0, 0, {}, "")

Frame_Text == InMsg("Text", "", <<>>, NoReq, FALSE)

Frame_Ping == InMsg("Ping", "", <<>>, NoReq, FALSE)

Frame_Pong == InMsg("Pong", "", <<>>, NoReq, FALSE)

Frame_Close == InMsg("Close", "", <<>>, NoReq, FALSE)

Binary(id, req, trailing) == InMsg("Binary", "ok", id, req, trailing)

Binary_Undecodable == InMsg("Binary", "err", <<>>, NoReq, FALSE)

NoIn == InMsg("", "", <<>>, NoReq, FALSE)

\* m is a binary message holding a request with the reserved id
HasReservedId(m) ==
    m.kind = "Binary" /\ m.deser = "ok" /\ m.id = <<255, 255, 255, 255>>

\* m is a binary message holding exactly one request with an ordinary id
Dispatched(m) ==
    /\ m.kind = "Binary"
    /\ m.deser = "ok"
    /\ m.id # <<255, 255, 255, 255>>
    /\ ~m.trailing

\* a response body: t the variant ("Error:<kind>" for an error), h the block
\* height it carries (-1 for none), flt the filter the block was filtered by
Body(t, h, flt) == [t |-> t, h |-> h, flt |-> flt]

NoBody == Body("", -1, NoFilter)

\* an outgoing WebSocket message: a serialized Response, a Ping or a Close
OutMsg(kind, id, body) == [kind |-> kind, id |-> id, body |-> body]

\* a Response serialized without its request id
Response_unkeyed(id, body) == OutMsg("Binary", <<0, 0, 0, 0>>, body)

Response(id, body) == OutMsg("Binary", id, body)

Msg_Ping == OutMsg("Ping", <<>>, NoBody)

\* Close with code Unsupported and no reason
Msg_CloseEmpty == OutMsg("Close", <<>>, NoBody)

\* Close with code Unsupported and the reason "text is not supported"
Msg_CloseText == OutMsg("Close", <<>>, Body("text is not supported", -1, NoFilter))

NoOutMsg == OutMsg("", <<>>, NoBody)

\* the terminal marker in the record of what a streaming task has sent
Marker == -1

\* a streaming task: the request id, the first height, the next height to
\* send, the last height, the filter of the range, its state ("run", "done"
\* or "cancelled") and, as history, the heights it has queued, in order, and
\* whether its Sender has parked
Task(id, min, max, flt) ==
    [id |-> id, min |-> min, next |-> min, max |-> max, flt |-> flt,
     st |-> "run", sent |-> <<>>, waited |-> FALSE]

\* AsyncBlockRange as a stream: it yields the blocks at heights min..max in
\* order and then ends
range_done(t) == t.next > t.max

\* Blockchain::get_block(h) answering Some for every height
has_block_always(h) == TRUE

\* Blockchain::get_block(h): Some exactly for the heights of the chain
has_block(h) == h >= 0 /\ h <= height

\* AsyncBlockRange::try_new(chain, min, max): Some exactly for a range of
\* blocks the chain holds
range_accepted(min, max) == min <= max /\ has_block(max)

\* Minter::push_tx: a transaction that verifies and is not pending is admitted
push_tx_ok(tx) == tx = "good" /\ tx \notin mempool

\* Minter::get_addr_info
addr_info_ok(addr) == addr = "known"

\* Subscribe with sub_pool.insert left out
pool_without_insert(p) == sub_pool

\* data.sub_pool.insert(state.addr(), state.sender())
pool_after_insert(p) == sub_pool \cup {p}

\* filter.len() > 16, with the check left out
filter_rejected_never(addrs) == FALSE

\* filter.len() > 16
filter_rejected(addrs) == Cardinality(addrs) > MAX_FILTER_LEN

\* the outcome of handle_request for peer p: the body returned (some is FALSE
\* for None), and the filter, pool, mempool and spawned tasks it leaves
Handled(some, body, flt, pool, mem, spawned) ==
    [some |-> some, body |-> body, filter |-> flt, sub_pool |-> pool,
     mempool |-> mem, spawned |-> spawned]

handle_request(p, id, req) ==
    LET same(body) == Handled(TRUE, body, filter[p], sub_pool, mempool, <<>>) IN
    CASE req.t = "Broadcast" ->
            IF push_tx_ok(req.tx)
            THEN Handled(TRUE, Body("Broadcast", -1, NoFilter), filter[p], sub_pool,
                         mempool \cup {req.tx}, <<>>)
            ELSE same(Body("Error:TxValidation", -1, NoFilter))
      [] req.t = "SetBlockFilter" ->
            IF filter_rejected(req.addrs)
            THEN same(Body("Error:InvalidRequest", -1, NoFilter))
            ELSE Handled(TRUE, Body("SetBlockFilter", -1, NoFilter),
                         Filter(TRUE, req.addrs), sub_pool, mempool, <<>>)
      [] req.t = "ClearBlockFilter" ->
            Handled(TRUE, Body("ClearBlockFilter", -1, NoFilter), NoFilter,
                    sub_pool, mempool, <<>>)
      [] req.t = "Subscribe" ->
            Handled(TRUE, Body("Subscribe", -1, NoFilter), filter[p],
                    pool_after_insert(p), mempool, <<>>)
      [] req.t = "Unsubscribe" ->
            Handled(TRUE, Body("Unsubscribe", -1, NoFilter), filter[p],
                    sub_pool \ {p}, mempool, <<>>)
      [] req.t = "GetProperties" ->
            same(Body("GetProperties", height, NoFilter))
      [] req.t = "GetBlock" ->
            IF has_block(req.a)
            THEN same(Body("GetBlock", req.a, filter[p]))
            ELSE same(Body("Error:InvalidHeight", -1, NoFilter))
      [] req.t = "GetFullBlock" ->
            IF has_block(req.a)
            THEN same(Body("GetFullBlock", req.a, NoFilter))
            ELSE same(Body("Error:InvalidHeight", -1, NoFilter))
      [] req.t = "GetBlockRange" ->
            IF range_accepted(req.a, req.b)
            THEN Handled(FALSE, NoBody, filter[p], sub_pool, mempool,
                         <<Task(id, req.a, req.b, filter[p])>>)
            ELSE same(Body("Error:InvalidHeight", -1, NoFilter))
      [] req.t = "GetAddressInfo" ->
            IF addr_info_ok(req.tx)
            THEN same(Body("GetAddressInfo", -1, NoFilter))
            ELSE same(Body("Error:TxValidation", -1, NoFilter))

\* the frame kinds for which process_message calls set_needs_pong(false),
\* the Ping arm left out
clears_without_ping == {"Binary", "Pong"}

\* the frame kinds for which process_message calls set_needs_pong(false),
\* the Binary arm left out
clears_without_binary == {"Ping", "Pong"}

\* the frame kinds for which process_message calls set_needs_pong(false)
clears_needs_pong == {"Binary", "Ping", "Pong"}

\* id == u32::max_value(), with the check left out
is_reserved_never(id) == FALSE

\* id == u32::max_value()
is_reserved(id) == id = u32_max_value

\* cur.position() != buf.len(), with the check left out
bytes_remaining_never(m) == FALSE

\* cur.position() != buf.len(): bytes are left after the request
bytes_remaining(m) == m.trailing

\* the outcome of process_message for peer p on message m: the message
\* returned (some is FALSE for None) and the state handle_request leaves
Processed(some, msg, h) ==
    [some |-> some, msg |-> msg, filter |-> h.filter, sub_pool |-> h.sub_pool,
     mempool |-> h.mempool, spawned |-> h.spawned]

process_message(p, m) ==
    LET untouched == Handled(FALSE, NoBody, filter[p], sub_pool, mempool, <<>>) IN
    CASE m.kind = "Binary" ->
            IF m.deser = "ok"
            THEN IF is_reserved(m.id)
                 THEN Processed(TRUE, Response(u32_max_value, Body("Error:Io", -1, NoFilter)),
                                untouched)
                 ELSE IF bytes_remaining(m)
                      THEN Processed(TRUE,
                                     Response(m.id, Body("Error:BytesRemaining", -1, NoFilter)),
                                     untouched)
                      ELSE LET h == handle_request(p, m.id, m.req) IN
                           IF h.some THEN Processed(TRUE, Response(m.id, h.body), h)
                           ELSE Processed(FALSE, NoOutMsg, h)
            ELSE Processed(TRUE, Response(u32_max_value, Body("Error:Io", -1, NoFilter)),
                           untouched)
      [] m.kind = "Text" -> Processed(TRUE, Msg_CloseText, untouched)
      [] m.kind = "Ping" -> Processed(FALSE, NoOutMsg, untouched)
      [] m.kind = "Pong" -> Processed(FALSE, NoOutMsg, untouched)
      [] OTHER -> Processed(FALSE, NoOutMsg, untouched)

----------------------------------------------------------------------------
(* The connection's tasks: reader, writer, heartbeat, streaming tasks *)

InitWs ==
    /\ conn = [p \in Peers |-> "none"]
    /\ needs_pong = [p \in Peers |-> FALSE]
    /\ filter = [p \in Peers |-> NoFilter]
    /\ chan = [p \in Peers |-> <<>>]
    /\ parked = [p \in Peers |-> <<>>]
    /\ reader = [p \in Peers |-> NoOutMsg]
    /\ hb = [p \in Peers |-> "wait"]
    /\ due = [p \in Peers |-> 0]
    /\ quiet = [p \in Peers |-> 0]
    /\ stalled = [p \in Peers |-> FALSE]
    /\ tasks = [p \in Peers |-> <<>>]
    /\ sub_pool = {}
    /\ mempool = {}
    /\ height = ChainHeight
    /\ ticked = [p \in Peers |-> FALSE]
    /\ cleared = [p \in Peers |-> FALSE]
    /\ last_sub = [p \in Peers |-> ""]
    /\ ev = [a |-> "init", p |-> "", k |-> "", m |-> NoIn]

Event(a, p, k) == [a |-> a, p |-> p, k |-> k, m |-> NoIn]

IsOpen(p) == conn[p] = "open"

\* the channel holds fewer messages than its buffer
HasRoom(p) == Len(chan[p]) < ChanCap

\* a Sender of the connection's channel: the reader's and the heartbeat's
\* clone for one send, a streaming task's clone for its blocks and its
\* handle for the terminal marker
Sender(k, i) == [k |-> k, i |-> i]

IsParked(p, s) == \E j \in 1..Len(parked[p]) : parked[p][j] = s

\* poll_unparked, with the check left out
sender_ready_always(p, s) == TRUE

\* poll_unparked: a Sender may start a send unless it is parked
sender_ready(p, s) == ~IsParked(p, s)

\* do_send: the message is queued whatever the channel holds, and the Sender
\* parks when the channel then holds more than its buffer; the send is
\* complete once the receiver has unparked the Sender
parked_after_send(p, s) ==
    IF HasRoom(p) THEN parked[p] ELSE Append(parked[p], s)

\* the connection has closed and sub_pool.remove(peer_addr) is left out
pool_kept_on_close(p) == sub_pool

\* conn.then: data.sub_pool.remove(peer_addr)
pool_after_close(p) == sub_pool \ {p}

\* the connection future of p has completed: the peer leaves the subscription
\* pool, and reader, writer (with the channel's receiver) and heartbeat are dropped
Teardown(p) ==
    /\ conn' = [conn EXCEPT ![p] = "closed"]
    /\ sub_pool' = pool_after_close(p)
    /\ chan' = [chan EXCEPT ![p] = <<>>]
    /\ parked' = [parked EXCEPT ![p] = <<>>]
    /\ reader' = [reader EXCEPT ![p] = NoOutMsg]
    /\ hb' = [hb EXCEPT ![p] = "wait"]
    /\ due' = [due EXCEPT ![p] = 0]

\* accept_async: the WebSocket handshake of peer p completes
Accept(p) ==
    /\ conn[p] = "none"
    /\ conn' = [conn EXCEPT ![p] = "open"]
    /\ ev' = Event("accept", p, "")
    /\ UNCHANGED <<codecVars, startVars, assetVars>>
    /\ UNCHANGED last_sub
    /\ UNCHANGED <<needs_pong, filter, chan, parked, reader, hb, due, quiet, stalled,
                   tasks, sub_pool, mempool, height, ticked, cleared>>

\* the reader takes message m off the stream and calls process_message
Receive(p, m) ==
    /\ IsOpen(p)
    /\ reader[p] = NoOutMsg
    /\ sender_ready(p, Sender("reader", 0))
    /\ Len(tasks[p]) < MaxTasks \/ m.req.t # "GetBlockRange"
    /\ LET r == process_message(p, m) IN
        /\ needs_pong' = IF m.kind \in clears_needs_pong
                         THEN [needs_pong EXCEPT ![p] = FALSE]
                         ELSE needs_pong
        /\ filter' = [filter EXCEPT ![p] = r.filter]
        /\ sub_pool' = r.sub_pool
        /\ mempool' = r.mempool
        /\ tasks' = [tasks EXCEPT ![p] = @ \o r.spawned]
        /\ reader' = [reader EXCEPT ![p] = IF r.some THEN r.msg ELSE NoOutMsg]
    /\ quiet' = [quiet EXCEPT ![p] = 0]
    /\ cleared' = IF m.kind \in {"Binary", "Ping", "Pong"}
                  THEN [cleared EXCEPT ![p] = TRUE]
                  ELSE cleared
    /\ last_sub' = IF Dispatched(m) /\ m.req.t \in {"Subscribe", "Unsubscribe"}
                   THEN [last_sub EXCEPT ![p] = m.req.t]
                   ELSE last_sub
    /\ ev' = [Event("frame", p, m.kind) EXCEPT !.m = m]
    /\ UNCHANGED <<codecVars, startVars, assetVars>>
    /\ UNCHANGED <<conn, chan, parked, hb, due, stalled, height, ticked>>

\* the reader's tx.clone().send(res) queues the response
ReaderSend(p) ==
    /\ IsOpen(p)
    /\ reader[p] # NoOutMsg
    /\ chan' = [chan EXCEPT ![p] = Append(@, reader[p])]
    /\ parked' = [parked EXCEPT ![p] = parked_after_send(p, Sender("reader", 0))]
    /\ reader' = [reader EXCEPT ![p] = NoOutMsg]
    /\ ev' = Event("reader_send", p, "")
    /\ UNCHANGED <<codecVars, startVars, assetVars>>
    /\ UNCHANGED last_sub
    /\ UNCHANGED <<conn, needs_pong, filter, hb, due, quiet, stalled, tasks,
                   sub_pool, mempool, height, ticked, cleared>>

\* the writer forwards the oldest message of the channel to the sink; the
\* receiver unparks the Sender that has been parked longest
WriterForward(p) ==
    /\ IsOpen(p)
    /\ chan[p] # <<>>
    /\ ~stalled[p]
    /\ chan' = [chan EXCEPT ![p] = Tail(@)]
    /\ parked' = [parked EXCEPT ![p] = IF @ = <<>> THEN @ ELSE Tail(@)]
    /\ ev' = Event("forward", p, "")
    /\ UNCHANGED <<codecVars, startVars, assetVars>>
    /\ UNCHANGED last_sub
    /\ UNCHANGED <<conn, needs_pong, filter, reader, hb, due, quiet, stalled,
                   tasks, sub_pool, mempool, height, ticked, cleared>>

\* the heartbeat stream is polled for its next tick: its last Ping send is
\* complete and a tick of the interval is due
TickReady(p) ==
    /\ hb[p] = "wait"
    /\ sender_ready(p, Sender("hb", 0))
    /\ due[p] > 0

\* the heartbeat stream takes a tick of the interval: take_while swaps
\* needs_pong to true and ends the stream when it was already true
HeartbeatTick(p) ==
    /\ IsOpen(p)
    /\ TickReady(p)
    /\ needs_pong' = [needs_pong EXCEPT ![p] = TRUE]
    /\ IF needs_pong[p]
       THEN Teardown(p)
       ELSE /\ hb' = [hb EXCEPT ![p] = "send"]
            /\ due' = [due EXCEPT ![p] = @ - 1]
            /\ UNCHANGED <<conn, sub_pool, chan, parked, reader>>
    /\ ticked' = [ticked EXCEPT ![p] = TRUE]
    /\ cleared' = [cleared EXCEPT ![p] = FALSE]
    /\ ev' = Event("tick", p, IF needs_pong[p] THEN "close"
                               ELSE IF ticked[p] THEN "kept" ELSE "first")
    /\ UNCHANGED <<codecVars, startVars, assetVars>>
    /\ UNCHANGED last_sub
    /\ UNCHANGED <<filter, quiet, stalled, tasks, mempool, height>>

\* the heartbeat's tx.clone().send(Ping) queues the Ping; the next tick is
\* polled only when the send is complete
HeartbeatSend(p) ==
    /\ IsOpen(p)
    /\ hb[p] = "send"
    /\ chan' = [chan EXCEPT ![p] = Append(@, Msg_Ping)]
    /\ parked' = [parked EXCEPT ![p] = parked_after_send(p, Sender("hb", 0))]
    /\ hb' = [hb EXCEPT ![p] = "wait"]
    /\ ev' = Event("ping", p, "")
    /\ UNCHANGED <<codecVars, startVars, assetVars>>
    /\ UNCHANGED last_sub
    /\ UNCHANGED <<conn, needs_pong, filter, reader, due, quiet, stalled, tasks,
                   sub_pool, mempool, height, ticked, cleared>>

\* the terminal marker sent under the reserved id
Msg_RangeMarker_unkeyed(id) == Response(u32_max_value, Body("GetBlockRange", -1, NoFilter))

\* the terminal marker of a range: Response { id, body: GetBlockRange }
Msg_RangeMarker(id) == Response(id, Body("GetBlockRange", -1, NoFilter))

\* a streaming task forwards the next block of its range
StreamBlock(p) ==
    /\ IsOpen(p)
    /\ \E i \in 1..Len(tasks[p]) :
        LET t == tasks[p][i] IN
        /\ t.st = "run"
        /\ ~range_done(t)
        /\ sender_ready(p, Sender("blocks", i))
        /\ chan' = [chan EXCEPT ![p] =
                        Append(@, Response(t.id, Body("GetBlock", t.next, t.flt)))]
        /\ parked' = [parked EXCEPT ![p] = parked_after_send(p, Sender("blocks", i))]
        /\ tasks' = [tasks EXCEPT ![p][i] =
                        [t EXCEPT !.next = @ + 1, !.sent = Append(@, t.next),
                                  !.waited = @ \/ ~HasRoom(p)]]
    /\ ev' = Event("stream_block", p, "")
    /\ UNCHANGED <<codecVars, startVars, assetVars>>
    /\ UNCHANGED last_sub
    /\ UNCHANGED <<conn, needs_pong, filter, reader, hb, due, quiet, stalled,
                   sub_pool, mempool, height, ticked, cleared>>

\* a streaming task has forwarded its range, the forward is flushed, and
\* the task sends the terminal marker
StreamMarker(p) ==
    /\ IsOpen(p)
    /\ \E i \in 1..Len(tasks[p]) :
        LET t == tasks[p][i] IN
        /\ t.st = "run"
        /\ range_done(t)
        /\ sender_ready(p, Sender("blocks", i))
        /\ chan' = [chan EXCEPT ![p] =
                        Append(@, Msg_RangeMarker(t.id))]
        /\ parked' = [parked EXCEPT ![p] = parked_after_send(p, Sender("marker", i))]
        /\ tasks' = [tasks EXCEPT ![p][i] =
                        [t EXCEPT !.st = "done", !.sent = Append(@, Marker)]]
    /\ ev' = Event("stream_marker", p, "")
    /\ UNCHANGED <<codecVars, startVars, assetVars>>
    /\ UNCHANGED last_sub
    /\ UNCHANGED <<conn, needs_pong, filter, reader, hb, due, quiet, stalled,
                   sub_pool, mempool, height, ticked, cleared>>

\* a streaming task's send fails on the closed channel and the task ends
StreamCancel(p) ==
    /\ conn[p] = "closed"
    /\ \E i \in 1..Len(tasks[p]) :
        /\ tasks[p][i].st = "run"
        /\ tasks' = [tasks EXCEPT ![p][i].st = "cancelled"]
    /\ ev' = Event("stream_cancel", p, "")
    /\ UNCHANGED <<codecVars, startVars, assetVars>>
    /\ UNCHANGED last_sub
    /\ UNCHANGED <<conn, needs_pong, filter, chan, parked, reader, hb, due, quiet,
                   stalled, sub_pool, mempool, height, ticked, cleared>>

\* a step of the connection's tasks is ready to run now
Runnable(p) ==
    \/ TickReady(p)
    \/ hb[p] = "send"
    \/ reader[p] # NoOutMsg
    \/ \E i \in 1..Len(tasks[p]) :
          tasks[p][i].st = "run" /\ sender_ready(p, Sender("blocks", i))
    \/ chan[p] # <<>> /\ ~stalled[p]

Min(a, b) == IF a < b THEN a ELSE b

\* 20 s pass on the connection of p with nothing ready to run: the interval
\* comes due once more
Elapse(p) ==
    /\ IsOpen(p)
    /\ ~Runnable(p)
    /\ due' = [due EXCEPT ![p] = Min(@ + 1, MaxDue)]
    /\ quiet' = [quiet EXCEPT ![p] = Min(@ + 1, MaxQuiet)]
    /\ ev' = Event("elapse", p, "")
    /\ UNCHANGED <<codecVars, startVars, assetVars>>
    /\ UNCHANGED last_sub
    /\ UNCHANGED <<conn, needs_pong, filter, chan, parked, reader, hb, stalled, tasks,
                   sub_pool, mempool, height, ticked, cleared>>

\* the peer stops reading its socket: the sink accepts no further message
PeerStalls(p) ==
    /\ IsOpen(p)
    /\ ~stalled[p]
    /\ stalled' = [stalled EXCEPT ![p] = TRUE]
    /\ ev' = Event("stall", p, "")
    /\ UNCHANGED <<codecVars, startVars, assetVars>>
    /\ UNCHANGED last_sub
    /\ UNCHANGED <<conn, needs_pong, filter, chan, parked, reader, hb, due, quiet, tasks,
                   sub_pool, mempool, height, ticked, cleared>>

\* the peer reads again
PeerResumes(p) ==
    /\ IsOpen(p)
    /\ stalled[p]
    /\ stalled' = [stalled EXCEPT ![p] = FALSE]
    /\ ev' = Event("resume", p, "")
    /\ UNCHANGED <<codecVars, startVars, assetVars>>
    /\ UNCHANGED last_sub
    /\ UNCHANGED <<conn, needs_pong, filter, chan, parked, reader, hb, due, quiet, tasks,
                   sub_pool, mempool, height, ticked, cleared>>

\* the peer's stream ends or the sink fails: reader or writer completes
Disconnect(p) ==
    /\ IsOpen(p)
    /\ Teardown(p)
    /\ ev' = Event("disconnect", p, "")
    /\ UNCHANGED <<codecVars, startVars, assetVars>>
    /\ UNCHANGED last_sub
    /\ UNCHANGED <<needs_pong, filter, quiet, stalled, tasks, mempool, height,
                   ticked, cleared>>

----------------------------------------------------------------------------
(* The minter and the subscription pool *)

\* the block event the pool broadcasts for the block at height h: a frame
\* with the reserved id
Msg_BlockEvent(h) == Response(u32_max_value, Body("Event:Block", h, NoFilter))

\* SubscriptionPool::broadcast for one subscriber: a non-blocking send, the
\* message dropped when the subscriber's channel is full
broadcast_to(p, msg) == IF HasRoom(p) THEN Append(chan[p], msg) ELSE chan[p]

\* the minter produces a block: the chain grows by the block, the pending
\* transactions are included, and the block event is published to the pool
InsertBlock ==
    /\ height < ChainHeight + MaxBlocks
    /\ height' = height + 1
    /\ mempool' = {}
    /\ chan' = [p \in Peers |->
                   IF p \in sub_pool
                   THEN broadcast_to(p, Msg_BlockEvent(height + 1))
                   ELSE chan[p]]
    /\ ev' = Event("insert_block", "", "")
    /\ UNCHANGED <<codecVars, startVars, assetVars>>
    /\ UNCHANGED last_sub
    /\ UNCHANGED <<conn, needs_pong, filter, parked, reader, hb, due, quiet, stalled,
                   tasks, sub_pool, ticked, cleared>>

----------------------------------------------------------------------------
(* The Blockchain: genesis, transaction verification, insert_block, reindex *)

\* the key pairs a minter may be started with
MinterKeys == {"k1", "k2"}

\* GenesisBlockInfo.wallet_keys, in order
WalletKeys == <<"w1", "w2", "w3", "w4">>

PublicKey(k) == <<"pub", k>>

\* GenesisBlockInfo.script: the wallet script over the generated wallet keys,
\* satisfied by a majority of two of them
WalletScript ==
    [t |-> "multisig", threshold |-> 2,
     keys |-> {PublicKey(WalletKeys[i]) : i \in 1..Len(WalletKeys)}]

\* the script of a wallet that is not the owner's
OtherScript == [t |-> "multisig", threshold |-> 1, keys |-> {PublicKey("w9")}]

\* ScriptHash::from(&Script)
ScriptHash(script) == <<"hash", script>>

\* script::Builder::new().push(OpFrame::False).build()
PushFalse == <<"PUSH FALSE">>

Owner(minter, script, wallet) == [minter |-> minter, script |-> script, wallet |-> wallet]

NoOwner == Owner(<<>>, <<>>, <<>>)

\* the owner recorded by a genesis block made with another script
genesis_owner_open(k) == Owner(PublicKey(k), <<"PUSH TRUE">>, ScriptHash(WalletScript))

\* the owner recorded by create_genesis_block(k)
genesis_owner(k) == Owner(PublicKey(k), PushFalse, ScriptHash(WalletScript))

MintTx(to, amount, script, sigs) ==
    [t |-> "Mint", to |-> to, amount |-> amount, script |-> script, sigs |-> sigs]

RewardTx(to, rewards) ==
    [t |-> "Reward", to |-> to, amount |-> rewards, script |-> <<>>, sigs |-> <<>>]

Block(h, prev, signer, txs) == [height |-> h, prev |-> prev, signer |-> signer, txs |-> txs]

BlockHash(b) == <<"blk", b.height, b.signer>>

GenesisBlock(k) == Block(0, <<>>, PublicKey(k), <<>>)

\* the chain: blocks[h + 1] is the block at height h
Ledger(blocks, status, torn, supply, owner) ==
    [blocks |-> blocks, status |-> status, torn |-> torn, supply |-> supply, owner |-> owner]

EmptyLedger == Ledger(<<>>, "None", FALSE, 0, NoOwner)

is_empty(l) == l.blocks = <<>>

get_chain_height(l) == Len(l.blocks) - 1

get_chain_head(l) == l.blocks[Len(l.blocks)]

get_block(l, h) == IF h >= 0 /\ h < Len(l.blocks) THEN <<l.blocks[h + 1]>> ELSE <<>>

create_genesis_block(l, k) ==
    Ledger(<<GenesisBlock(k)>>, "Complete", FALSE, 0, genesis_owner(k))

\* Block::new_child(txs) of the head, signed with key k
new_child(l, txs, k) ==
    Block(get_chain_height(l) + 1, BlockHash(get_chain_head(l)), PublicKey(k), txs)

SigKeys(tx) == {tx.sigs[i] : i \in 1..Len(tx.sigs)}

\* a MintTx counts a single signature as a majority of the wallet keys
mint_signed_by_one(l, tx) == Cardinality(SigKeys(tx) \cap WalletScript.keys) >= 1

\* a MintTx is signed by a majority of the owner's wallet keys
mint_signed(l, tx) ==
    Cardinality(SigKeys(tx) \cap tx.script.keys) >= tx.script.threshold

\* Blockchain::verify_tx for the transactions of one block; last: tx is the
\* block's last transaction
verify_tx(l, tx, last) ==
    /\ Cardinality(SigKeys(tx)) = Len(tx.sigs)
    /\ IF tx.t = "Mint"
       THEN /\ ScriptHash(tx.script) = l.owner.wallet
            /\ tx.to = l.owner.wallet
            /\ mint_signed(l, tx)
       ELSE /\ last
            /\ tx.sigs = <<>>

RECURSIVE minted(_)
\* the amount the MintTx transactions of txs add to the token supply
minted(txs) ==
    IF txs = <<>> THEN 0
    ELSE (IF Head(txs).t = "Mint" THEN Head(txs).amount ELSE 0) + minted(Tail(txs))

\* the token supply keeps its value when a block is accepted
supply_kept(l, b) == l.supply

supply_after(l, b) == l.supply + minted(b.txs)

\* Blockchain::insert_block: linkage, signature, every transaction
block_valid(l, b) ==
    /\ ~is_empty(l)
    /\ b.height = get_chain_height(l) + 1
    /\ b.prev = BlockHash(get_chain_head(l))
    /\ b.signer = l.owner.minter
    /\ \A i \in 1..Len(b.txs) : verify_tx(l, b.txs[i], i = Len(b.txs))

insert_block(l, b) ==
    IF block_valid(l, b)
    THEN [ok |-> TRUE,
          ledger |-> [l EXCEPT !.blocks = Append(l.blocks, b), !.supply = supply_after(l, b)]]
    ELSE [ok |-> FALSE, ledger |-> l]

\* Blockchain::reindex(opts): the log is scanned; a torn tail is cut off when
\* auto_trim is set and aborts the reindex when it is not
reindex(l, auto_trim) ==
    IF l.torn /\ ~auto_trim
    THEN [ok |-> FALSE, ledger |-> [l EXCEPT !.status = "Partial"]]
    ELSE [ok |-> TRUE, ledger |-> [l EXCEPT !.status = "Complete", !.torn = FALSE]]

----------------------------------------------------------------------------
(* Server start-up: start() of lib.rs, and the blocks inserted afterwards *)

Step(step, ok, block) == [step |-> step, ok |-> ok, block |-> block]

NoBlock == Block(-1, <<>>, <<>>, <<>>)

NoStep == Step("", FALSE, NoBlock)

Boot(pc, reindex_opt, key, empty, found, log, last) ==
    [pc |-> pc, reindex |-> reindex_opt, key |-> key, is_empty |-> empty,
     found |-> found, log |-> log, last |-> last]

InitStart ==
    /\ boot = Boot("new", "absent", "", FALSE, "", <<>>, NoStep)
    /\ ledger = EmptyLedger

\* a chain of one block and a chain of two, as an earlier run left them
Chain0 == create_genesis_block(EmptyLedger, "k1")

Mint1000 ==
    MintTx(ScriptHash(WalletScript), 100000000, WalletScript,
           <<PublicKey("w2"), PublicKey("w1")>>)

Chain1 ==
    insert_block(Chain0,
                 new_child(Chain0, <<Mint1000, RewardTx(ScriptHash(WalletScript), 0)>>,
                           "k1")).ledger

\* what Blockchain::new may find on disk
DiskLedgers ==
    {EmptyLedger} \cup
    {l \in {[c EXCEPT !.status = st, !.torn = tr] :
                c \in {Chain0, Chain1}, st \in {"None", "Partial", "Complete"},
                tr \in BOOLEAN} : ~(l.status = "Complete" /\ l.torn)}

\* ServerOpts.reindex: no options, or ReindexOpts { auto_trim }
ReindexOptions == {"absent", "trim", "keep"}

\* start() never asks for a reindex
needs_reindex_never(empty, status) == FALSE

\* start(): the chain is not empty and its index is not complete
needs_reindex(empty, status) == ~empty /\ status # "Complete"

\* start(): Blockchain::new, is_empty
BlockchainNew(disk, opt, key) ==
    /\ boot.pc = "new"
    /\ ledger' = disk
    /\ boot' = Boot("check", opt, key, is_empty(disk), disk.status, <<>>,
                    Step("new", TRUE, NoBlock))
    /\ UNCHANGED <<codecVars, wsVars, assetVars>>

\* start(): the index check, reindex or panic
CheckIndex ==
    /\ boot.pc = "check"
    /\ IF needs_reindex(boot.is_empty, ledger.status)
       THEN IF boot.reindex = "absent"
            THEN /\ boot' = [boot EXCEPT !.pc = "aborted",
                                         !.log = Append(@, "panic"),
                                         !.last = Step("panic", FALSE, NoBlock)]
                 /\ UNCHANGED ledger
            ELSE LET r == reindex(ledger, boot.reindex = "trim") IN
                 /\ ledger' = r.ledger
                 /\ boot' = [boot EXCEPT !.pc = IF r.ok THEN "genesis" ELSE "aborted",
                                         !.log = Append(@, "reindex"),
                                         !.last = Step("reindex", r.ok, NoBlock)]
       ELSE /\ boot' = [boot EXCEPT !.pc = "genesis",
                                    !.last = Step("indexed", TRUE, NoBlock)]
            /\ UNCHANGED ledger
    /\ UNCHANGED <<codecVars, wsVars, assetVars>>

\* start(): create_genesis_block when the chain was empty
Genesis ==
    /\ boot.pc = "genesis"
    /\ IF boot.is_empty
       THEN /\ ledger' = create_genesis_block(ledger, boot.key)
            /\ boot' = [boot EXCEPT !.pc = "minter",
                                    !.log = Append(@, "genesis"),
                                    !.last = Step("genesis", TRUE, NoBlock)]
       ELSE /\ boot' = [boot EXCEPT !.pc = "minter",
                                    !.last = Step("kept", TRUE, NoBlock)]
            /\ UNCHANGED ledger
    /\ UNCHANGED <<codecVars, wsVars, assetVars>>

\* start(): Minter::new, start_production_loop
StartProduction ==
    /\ boot.pc = "minter"
    /\ boot' = [boot EXCEPT !.pc = "listen",
                            !.log = Append(@, "loop"),
                            !.last = Step("loop", TRUE, NoBlock)]
    /\ UNCHANGED ledger
    /\ UNCHANGED <<codecVars, wsVars, assetVars>>

\* start(): start_server
StartServer ==
    /\ boot.pc = "listen"
    /\ boot' = [boot EXCEPT !.pc = "serving",
                            !.log = Append(@, "listen"),
                            !.last = Step("listen", TRUE, NoBlock)]
    /\ UNCHANGED ledger
    /\ UNCHANGED <<codecVars, wsVars, assetVars>>

LoopRunning == boot.pc \in {"listen", "serving"}

\* a child of the head with transactions txs, signed with the minter's key,
\* is handed to insert_block
ProduceBlock(txs) ==
    /\ LoopRunning
    /\ ~is_empty(ledger)
    /\ get_chain_height(ledger) < MaxHeight
    /\ LET b == new_child(ledger, txs, boot.key)
           r == insert_block(ledger, b) IN
        /\ ledger' = r.ledger
        /\ boot' = [boot EXCEPT !.last = Step("insert", r.ok, b)]
    /\ UNCHANGED <<codecVars, wsVars, assetVars>>

\* a block that is not a child of the head is handed to insert_block
InsertUnlinked(txs) ==
    /\ LoopRunning
    /\ ~is_empty(ledger)
    /\ get_chain_height(ledger) < MaxHeight
    /\ LET b == [new_child(ledger, txs, boot.key) EXCEPT !.prev = <<>>]
           r == insert_block(ledger, b) IN
        /\ ledger' = r.ledger
        /\ boot' = [boot EXCEPT !.last = Step("insert", r.ok, b)]
    /\ UNCHANGED <<codecVars, wsVars, assetVars>>

----------------------------------------------------------------------------
(* Exact integers.  An i64 or i128 value is [neg, mag]: its sign and its     *)
(* magnitude as a sequence of limbs in base 10000, most significant first,   *)
(* without leading zero limbs; zero is [FALSE, <<>>].                        *)

Num(neg, mag) == [neg |-> neg, mag |-> mag]

Zero == Num(FALSE, <<>>)

Front(s) == Take(s, Len(s) - 1)

Last(s) == s[Len(s)]

RECURSIVE Norm(_)
\* the limbs, or digits, without leading zeros
Norm(m) == IF m # <<>> /\ Head(m) = 0 THEN Norm(Tail(m)) ELSE m

RECURSIVE LexLess(_, _)
LexLess(a, b) ==
    IF a = <<>> THEN FALSE
    ELSE IF Head(a) # Head(b) THEN Head(a) < Head(b)
    ELSE LexLess(Tail(a), Tail(b))

\* a < b, magnitudes
MagLess(a, b) == Len(a) < Len(b) \/ (Len(a) = Len(b) /\ LexLess(a, b))

MagLeq(a, b) == a = b \/ MagLess(a, b)

RECURSIVE AddLimbs(_, _, _)
AddLimbs(a, b, c) ==
    IF a = <<>> /\ b = <<>> THEN (IF c = 0 THEN <<>> ELSE <<c>>)
    ELSE LET x == IF a = <<>> THEN 0 ELSE Last(a)
             y == IF b = <<>> THEN 0 ELSE Last(b)
             s == x + y + c
         IN Append(AddLimbs(Front(a), Front(b), s \div 10000), s % 10000)

AddMag(a, b) == Norm(AddLimbs(a, b, 0))

RECURSIVE SubLimbs(_, _, _)
SubLimbs(a, b, c) ==
    IF a = <<>> THEN <<>>
    ELSE LET y == IF b = <<>> THEN 0 ELSE Last(b)
             s == Last(a) - y - c
         IN Append(SubLimbs(Front(a), Front(b), IF s < 0 THEN 1 ELSE 0),
                   IF s < 0 THEN s + 10000 ELSE s)

\* a - b for b <= a, magnitudes
SubMag(a, b) == Norm(SubLimbs(a, b, 0))

RECURSIVE MulLimbs(_, _, _)
MulLimbs(a, d, c) ==
    IF a = <<>> THEN (IF c = 0 THEN <<>> ELSE <<c>>)
    ELSE LET s == Last(a) * d + c
         IN Append(MulLimbs(Front(a), d, s \div 10000), s % 10000)

\* a times the single limb d
MulLimb(a, d) == Norm(MulLimbs(a, d, 0))

RECURSIVE MulMag(_, _)
MulMag(a, b) ==
    IF a = <<>> \/ b = <<>> THEN <<>>
    ELSE AddMag(Norm(Append(MulMag(a, Front(b)), 0)), MulLimb(a, Last(b)))

\* the largest j in 0..9 with b * (k + j * unit) <= r
QuotDigit(b, r, k, unit) ==
    CHOOSE j \in 0..9 :
        /\ MagLeq(MulLimb(b, k + j * unit), r)
        /\ j = 9 \/ MagLess(r, MulLimb(b, k + (j + 1) * unit))

\* the largest limb k with b * k <= r, for r < b * 10000
QuotLimb(b, r) ==
    LET k3 == 1000 * QuotDigit(b, r, 0, 1000)
        k2 == k3 + 100 * QuotDigit(b, r, k3, 100)
        k1 == k2 + 10 * QuotDigit(b, r, k2, 10)
    IN k1 + QuotDigit(b, r, k1, 1)

RECURSIVE DivSteps(_, _, _, _)
\* long division: the limbs a still to bring down, the divisor b, the
\* remainder so far and the quotient limbs so far
DivSteps(a, b, r, q) ==
    IF a = <<>> THEN [q |-> Norm(q), r |-> r]
    ELSE LET r1 == Norm(Append(r, Head(a)))
             d == QuotLimb(b, r1)
         IN DivSteps(Tail(a), b, SubMag(r1, MulLimb(b, d)), Append(q, d))

\* quotient and remainder of magnitudes, b not zero
DivMag(a, b) == DivSteps(a, b, <<>>, <<>>).q

RemMag(a, b) == DivSteps(a, b, <<>>, <<>>).r

\* the decimal digits of a magnitude
ToDigits(m) ==
    Norm([i \in 1..(4 * Len(m)) |->
            (m[((i - 1) \div 4) + 1] \div <<1000, 100, 10, 1>>[((i - 1) % 4) + 1]) % 10])

\* the magnitude with decimal digits ds
FromDigits(ds) ==
    LET n == Len(ds)
        pad == 4 * ((n + 3) \div 4) - n
        at(i) == IF i - pad >= 1 THEN ds[i - pad] ELSE 0
    IN Norm([j \in 1..((n + 3) \div 4) |->
               1000 * at(4 * j - 3) + 100 * at(4 * j - 2) + 10 * at(4 * j - 1) + at(4 * j)])

Signed(neg, mag) == Num(neg /\ mag # <<>>, mag)

Neg(x) == Signed(~x.neg, x.mag)

Add(x, y) ==
    IF x.neg = y.neg THEN Signed(x.neg, AddMag(x.mag, y.mag))
    ELSE IF MagLess(x.mag, y.mag) THEN Signed(y.neg, SubMag(y.mag, x.mag))
    ELSE Signed(x.neg, SubMag(x.mag, y.mag))

Sub(x, y) == Add(x, Neg(y))

Mul(x, y) == Signed(x.neg # y.neg, MulMag(x.mag, y.mag))

\* the quotient truncated toward zero, y not zero
Div(x, y) == Signed(x.neg # y.neg, DivMag(x.mag, y.mag))

Less(x, y) ==
    IF x.neg # y.neg THEN x.neg
    ELSE IF x.neg THEN MagLess(y.mag, x.mag)
    ELSE MagLess(x.mag, y.mag)

Leq(x, y) == x = y \/ Less(x, y)

\* 10^n
Pow10(n) == FromDigits(<<1>> \o [i \in 1..n |-> 0])

\* 2^63, 2^64 and 2^127
Two63 == FromDigits(<<9, 2, 2, 3, 3, 7, 2, 0, 3, 6, 8, 5, 4, 7, 7, 5, 8, 0, 8>>)

Two64 == FromDigits(<<1, 8, 4, 4, 6, 7, 4, 4, 0, 7, 3, 7, 0, 9, 5, 5, 1, 6, 1, 6>>)

Two127 ==
    FromDigits(<<1, 7, 0, 1, 4, 1, 1, 8, 3, 4, 6, 0, 4, 6, 9, 2, 3, 1, 7, 3, 1, 6, 8, 7, 3, 0, 3, 7, 1, 5, 8, 8, 4, 1, 0, 5, 7, 2, 8>>)

i64_MAX == Num(FALSE, SubMag(Two63, <<1>>))

i64_MIN == Num(TRUE, Two63)

i128_MAX == Num(FALSE, SubMag(Two127, <<1>>))

i128_MIN == Num(TRUE, Two127)

InI64(x) == Leq(i64_MIN, x) /\ Leq(x, i64_MAX)

InI128(x) == Leq(i128_MIN, x) /\ Leq(x, i128_MAX)

\* x as i64: the low 64 bits of x in two's complement
as_i64(x) ==
    LET m == RemMag(x.mag, Two64)
        low == IF x.neg /\ m # <<>> THEN SubMag(Two64, m) ELSE m
    IN IF MagLess(low, Two63) THEN Num(FALSE, low)
       ELSE Num(TRUE, SubMag(Two64, low))

----------------------------------------------------------------------------
(* Asset: checked arithmetic (asset/mod.rs) *)

MAX_STR_LEN == 26

MAX_PRECISION == 5

Some(x) == [some |-> TRUE, v |-> x]

None == [some |-> FALSE, v |-> Zero]

i64_checked_add(a, b) == IF InI64(Add(a, b)) THEN Some(Add(a, b)) ELSE None

i64_checked_sub(a, b) == IF InI64(Sub(a, b)) THEN Some(Sub(a, b)) ELSE None

i64_checked_mul(a, b) == IF InI64(Mul(a, b)) THEN Some(Mul(a, b)) ELSE None

i64_checked_div(a, b) ==
    IF b = Zero \/ ~InI64(Div(a, b)) THEN None ELSE Some(Div(a, b))

i128_checked_mul(a, b) == IF InI128(Mul(a, b)) THEN Some(Mul(a, b)) ELSE None

\* precision::set_decimals_i128 and set_decimals_i64: val with cur decimals
\* rescaled to new decimals, truncating toward zero when decimals are dropped
set_decimals_i128(val, cur, new) ==
    IF cur > new THEN Some(Div(val, Num(FALSE, Pow10(cur - new))))
    ELSE i128_checked_mul(val, Num(FALSE, Pow10(new - cur)))

set_decimals_i64(val, cur, new) ==
    IF cur > new THEN Some(Div(val, Num(FALSE, Pow10(cur - new))))
    ELSE i64_checked_mul(val, Num(FALSE, Pow10(new - cur)))

checked_add(a, b) == i64_checked_add(a, b)

checked_sub(a, b) == i64_checked_sub(a, b)

\* checked_mul keeps the ten decimals of the product
MUL_PRECISION_kept == MAX_PRECISION

MUL_PRECISION == MAX_PRECISION * 2

checked_mul(a, b) ==
    LET mul == i128_checked_mul(a, b) IN
    IF ~mul.some THEN None
    ELSE LET final_mul == set_decimals_i128(mul.v, MUL_PRECISION, MAX_PRECISION) IN
         IF ~final_mul.some THEN None
         ELSE IF Less(i64_MAX, final_mul.v) THEN None
         ELSE Some(as_i64(final_mul.v))

\* checked_div scales the dividend by no decimals
DIV_PRECISION_kept == MAX_PRECISION

DIV_PRECISION == MAX_PRECISION * 2

checked_div(a, b) ==
    IF b = Zero THEN None
    ELSE LET s == set_decimals_i64(a, MAX_PRECISION, DIV_PRECISION) IN
         IF ~s.some THEN None
         ELSE i64_checked_div(s.v, b)

----------------------------------------------------------------------------
(* Asset: to_string and from_str (asset/mod.rs).  A string is the sequence  *)
(* of its characters.                                                        *)

DigitChars == <<"0", "1", "2", "3", "4", "5", "6", "7", "8", "9">>

IsDigitChar(c) == \E i \in 1..10 : DigitChars[i] = c

DigitOf(c) == (CHOOSE i \in 1..10 : DigitChars[i] = c) - 1

\* i64::to_string
i64_to_string(x) ==
    IF x = Zero THEN <<"0">>
    ELSE LET ds == ToDigits(x.mag) IN
         (IF x.neg THEN <<"-">> ELSE <<>>) \o [i \in 1..Len(ds) |-> DigitChars[ds[i] + 1]]

\* str::parse::<i64>: an optional sign and at least one digit, in range
i64_parse(s) ==
    LET signed == s # <<>> /\ Head(s) \in {"+", "-"}
        ds == IF signed THEN Tail(s) ELSE s
    IN IF ds = <<>> \/ \E i \in 1..Len(ds) : ~IsDigitChar(ds[i]) THEN None
       ELSE LET x == Signed(signed /\ Head(s) = "-",
                            FromDigits([i \in 1..Len(ds) |-> DigitOf(ds[i])]))
            IN IF InI64(x) THEN Some(x) ELSE None

\* String::insert_str(pos, t)
insert_str(s, pos, t) == Take(s, pos) \o t \o Drop(s, pos)

repeat(c, n) == [i \in 1..n |-> c]

UnitSymbol == <<"M", "A", "R", "K">>

to_string(amount) ==
    LET s == i64_to_string(amount)
        len == Len(s)
        start == IF amount.neg THEN 1 ELSE 0
        diff == MAX_PRECISION - len + start
        t == IF len < MAX_PRECISION
             THEN insert_str(insert_str(s, start, <<"0", ".">>), start + 2, repeat("0", diff))
             ELSE IF len = MAX_PRECISION
             THEN insert_str(s, 0, <<"0", ".">>)
             ELSE insert_str(s, len - MAX_PRECISION, <<".">>)
    IN t \o <<" ">> \o UnitSymbol

IsSpace(c) == c \in {" ", "\t", "\n"}

RECURSIVE trim_start(_)
trim_start(s) == IF s # <<>> /\ IsSpace(Head(s)) THEN trim_start(Tail(s)) ELSE s

RECURSIVE trim_end(_)
trim_end(s) == IF s # <<>> /\ IsSpace(Last(s)) THEN trim_end(Front(s)) ELSE s

\* str::trim
trim(s) == trim_end(trim_start(s))

\* str::find(c): the index of the first c, counted from 0, or -1
find(s, c) ==
    IF \E i \in 1..Len(s) : s[i] = c
    THEN (CHOOSE i \in 1..Len(s) : s[i] = c /\ \A j \in 1..(i - 1) : s[j] # c) - 1
    ELSE -1

\* str::replace(c, "")
remove(s, c) == SelectSeq(s, LAMBDA x : x # c)

\* str::splitn(2, ' '): the token before the first space, and the rest if any
splitn2(s) ==
    LET pos == find(s, " ") IN
    IF pos < 0 THEN <<s>> ELSE <<Take(s, pos), Drop(s, pos + 1)>>

Ok(amount) == [ok |-> TRUE, amount |-> amount, kind |-> ""]

Err(kind) == [ok |-> FALSE, amount |-> Zero, kind |-> kind]

\* Asset::from_str accepts a string of any length
str_too_large_never(s) == FALSE

\* Asset::from_str: s.len() > MAX_STR_LEN
str_too_large(s) == Len(s) > MAX_STR_LEN

\* Asset::from_str: the decimals of the amount token x whose first '.' is at pos
decimals(x, pos) ==
    LET len == Len(x) - 1 IN
    (IF pos > 0 THEN len - pos ELSE len) % 256

from_str(s) ==
    IF str_too_large(s) THEN Err("StrTooLarge")
    ELSE LET split == splitn2(trim(s))
             x == split[1]
             pos == find(x, ".")
         IN IF pos < 0 THEN Err("InvalidFormat")
            ELSE IF decimals(x, pos) # MAX_PRECISION THEN Err("InvalidFormat")
            ELSE LET amount == i64_parse(remove(x, ".")) IN
                 IF ~amount.some THEN Err("InvalidAmount")
                 ELSE IF Len(split) < 2 THEN Err("InvalidFormat")
                 ELSE IF split[2] # UnitSymbol THEN Err("InvalidAssetType")
                 ELSE Ok(amount.v)

----------------------------------------------------------------------------
(* One Asset operation applied to chosen operands *)

Calc(o, a, b, s, opt, r) == [op |-> o, a |-> a, b |-> b, s |-> s, opt |-> opt, res |-> r]

NoRes == Err("")

InitAsset == calc = Calc("init", Zero, Zero, <<>>, None, NoRes)

P(digits) == Num(FALSE, FromDigits(digits))

M(digits) == Num(TRUE, FromDigits(digits))

\* the operands: small amounts of both signs, the operands of the arithmetic
\* tests of asset/mod.rs, and the ends of the i64 range
Amounts ==
    {Zero, P(<<1>>), M(<<1>>), P(<<3>>), M(<<9, 9, 9>>), P(<<1, 0, 0, 0>>),
     M(<<1, 0, 0, 0>>), M(<<1, 0, 0, 0, 0>>), P(<<9, 9, 9, 9, 9>>),
     P(<<1, 0, 0, 0, 0, 0>>), M(<<1, 0, 0, 0, 0, 0>>), P(<<2, 0, 0, 0, 0, 0>>),
     P(<<2, 3, 0, 0, 0, 0, 0>>), P(<<1, 2, 3, 4, 5, 6, 0, 0>>),
     P(<<1, 0, 0, 0, 0, 0, 1, 1, 1, 1, 1>>), M(<<1, 0, 0, 0, 0, 0, 1, 1, 1, 1, 1>>),
     P(<<9, 2, 2, 3, 3, 7, 2, 0, 3, 6, 8, 5, 4, 8>>),
     i64_MAX, i64_MIN}

CheckedAdd(a, b) ==
    /\ calc.op = "init"
    /\ calc' = Calc("checked_add", a, b, <<>>, checked_add(a, b), NoRes)
    /\ UNCHANGED <<codecVars, wsVars, startVars>>

CheckedSub(a, b) ==
    /\ calc.op = "init"
    /\ calc' = Calc("checked_sub", a, b, <<>>, checked_sub(a, b), NoRes)
    /\ UNCHANGED <<codecVars, wsVars, startVars>>

CheckedMul(a, b) ==
    /\ calc.op = "init"
    /\ calc' = Calc("checked_mul", a, b, <<>>, checked_mul(a, b), NoRes)
    /\ UNCHANGED <<codecVars, wsVars, startVars>>

CheckedDiv(a, b) ==
    /\ calc.op = "init"
    /\ calc' = Calc("checked_div", a, b, <<>>, checked_div(a, b), NoRes)
    /\ UNCHANGED <<codecVars, wsVars, startVars>>

AssetToString(a) ==
    /\ calc.op = "init"
    /\ calc' = Calc("to_string", a, Zero, to_string(a), None, NoRes)
    /\ UNCHANGED <<codecVars, wsVars, startVars>>

AssetFromStr(s) ==
    /\ calc.op = "init"
    /\ calc' = Calc("from_str", Zero, Zero, s, None, from_str(s))
    /\ UNCHANGED <<codecVars, wsVars, startVars>>

\* amount tokens
AmountTokens ==
    {<<"1", ".", "0", "0", "0", "0", "0">>,
     <<"-", ".", "1", "0", "0", "0", "0">>,
     <<"+", "1", ".", "0", "0", "0", "0", "1">>,
     <<".", "0", "0", "0", "0", "0">>,
     <<"1">>,
     <<"1", ".">>,
     <<"1", ".", "0", "0", "0", "0", "0", "0">>,
     <<"a", "1", ".", "0", "0", "0", "0", "0">>,
     <<"1", ".", "0", "0", "0", "0", "a">>,
     <<"1", ".", "0", ".", "0", "0", "0">>,
     <<".", ".", ".", ".", ".", ".">>,
     <<"-", ".", "0", "0", "0", "0", "0">>,
     <<"9", "2", "2", "3", "3", "7", "2", "0", "3", "6", "8", "5", "4", "7", "7",
       ".", "5", "8", "0", "8", "0">>,
     <<>>}

\* what follows the amount token
UnitTokens ==
    {<<>>, <<" ">>, <<" ", "M", "A", "R", "K">>, <<" ", "m", "a", "r", "k">>,
     <<" ", "M", "A", "R", "K", " ", "a">>, <<" ", " ", "M", "A", "R", "K">>,
     <<"\t", "M", "A", "R", "K">>, <<" ", "M", "A", "R", "K", " ">>}

\* strings of 27 characters
LongStrings ==
    {repeat("0", 15) \o <<"1", ".", "0", "0", "0", "0", "0", " ", "M", "A", "R", "K">>,
     repeat("1", 22) \o <<" ", "M", "A", "R", "K">>,
     repeat(" ", 15) \o <<"1", ".", "0", "0", "0", "0", "0", " ", "M", "A", "R", "K">>,
     repeat("1", 27)}

Strings == {t \o u : t \in AmountTokens, u \in UnitTokens} \cup LongStrings

NextAsset ==
    \/ \E a \in Amounts, b \in Amounts : CheckedAdd(a, b)
    \/ \E a \in Amounts, b \in Amounts : CheckedSub(a, b)
    \/ \E a \in Amounts, b \in Amounts : CheckedMul(a, b)
    \/ \E a \in Amounts, b \in Amounts : CheckedDiv(a, b)
    \/ \E a \in Amounts : AssetToString(a)
    \/ \E s \in Strings : AssetFromStr(s)

----------------------------------------------------------------------------
(* SpecHeartbeat: one connection, its keep-alive and its inbound frames *)

Id1 == <<0, 0, 0, 1>>

HeartbeatFrames ==
    { Frame_Text, Frame_Ping, Frame_Pong, Frame_Close,
      Binary(Id1, Req("GetProperties", 0, 0, {}, ""), FALSE),
      Binary_Undecodable }

Init == InitCodec /\ InitWs /\ InitStart /\ InitAsset

\* the codec on its own: no connection is ever accepted
SpecCodec == Init /\ [][NextCodec]_vars

NextHeartbeat ==
    \/ Accept("p1")
    \/ \E m \in HeartbeatFrames : Receive("p1", m)
    \/ ReaderSend("p1")
    \/ WriterForward("p1")
    \/ HeartbeatTick("p1")
    \/ HeartbeatSend("p1")
    \/ Elapse("p1")
    \/ PeerStalls("p1")
    \/ PeerResumes("p1")
    \/ Disconnect("p1")

SpecHeartbeat == Init /\ [][NextHeartbeat]_vars

----------------------------------------------------------------------------
(* Properties of the keep-alive, checked under SpecHeartbeat *)

\* C8 (as claimed): a connection that has seen no inbound frame for two
\* 20-second intervals is closed: it is open after the second interval only
\* for the instant in which the heartbeat takes the tick that closes it.
C8_ClosedAfterTwoQuietIntervals ==
    \A p \in Peers :
        (IsOpen(p) /\ quiet[p] >= 2) => TickReady(p)

\* C9: a heartbeat tick closes the connection exactly when an earlier tick
\* has set needs_pong and no Binary, Ping or Pong frame was processed since;
\* a tick that does not close starts the send of one Ping, and that send puts
\* exactly one Ping on the channel.
C9_CloseOnlyWithoutFrameSinceTick ==
    [][\A p \in Peers :
          /\ (ev'.a = "tick" /\ ev'.p = p) =>
                /\ (conn'[p] = "closed") <=> (ticked[p] /\ ~cleared[p])
                /\ conn'[p] = "open" => (hb'[p] = "send" /\ chan'[p] = chan[p])
          /\ (hb[p] = "send" /\ hb'[p] = "wait" /\ conn'[p] = "open") =>
                chan'[p] = Append(chan[p], Msg_Ping)]_vars

\* a second or later tick found needs_pong cleared and kept the connection
C9_Witness ==
    /\ ev = Event("tick", "p1", "kept")
    /\ IsOpen("p1")
    /\ needs_pong["p1"]
    /\ hb["p1"] = "send"

\* C10 (as claimed): every incoming frame, whatever its type, clears
\* needs_pong when it is processed.
C10_EveryFrameClears ==
    [][\A p \in Peers : (ev'.a = "frame" /\ ev'.p = p) => ~needs_pong'[p]]_vars

\* C10 (amended): a Binary, Ping or Pong frame clears needs_pong when it is
\* processed; a Text or Close frame leaves needs_pong as it was.
C10_BinaryPingPongClear ==
    [][\A p \in Peers :
          (ev'.a = "frame" /\ ev'.p = p) =>
              needs_pong'[p] = IF ev'.k \in {"Binary", "Ping", "Pong"}
                               THEN FALSE
                               ELSE needs_pong[p]]_vars

\* a Pong was processed after a tick had set needs_pong, and the flag is clear
C10_Witness ==
    /\ ev.a = "frame" /\ ev.p = "p1" /\ ev.k = "Pong"
    /\ ticked["p1"]
    /\ cleared["p1"]
    /\ ~needs_pong["p1"]

----------------------------------------------------------------------------
(* SpecRequests: one connection and the requests it may send *)

\* a filter of n addresses
Addrs(n) == 1..n

RequestBodies ==
    { Req("Subscribe", 0, 0, {}, ""),
      Req("Unsubscribe", 0, 0, {}, ""),
      Req("SetBlockFilter", 0, 0, Addrs(MAX_FILTER_LEN), ""),
      Req("SetBlockFilter", 0, 0, Addrs(MAX_FILTER_LEN + 1), ""),
      Req("ClearBlockFilter", 0, 0, {}, ""),
      Req("Broadcast", 0, 0, {}, "good"),
      Req("Broadcast", 0, 0, {}, "bad"),
      Req("GetProperties", 0, 0, {}, ""),
      Req("GetBlock", ChainHeight, 0, {}, ""),
      Req("GetBlock", ChainHeight + 1, 0, {}, ""),
      Req("GetFullBlock", ChainHeight, 0, {}, ""),
      Req("GetFullBlock", ChainHeight + 1, 0, {}, ""),
      Req("GetBlockRange", 0, ChainHeight, {}, ""),
      Req("GetBlockRange", 0, ChainHeight + 1, {}, ""),
      Req("GetAddressInfo", 0, 0, {}, "known"),
      Req("GetAddressInfo", 0, 0, {}, "unknown") }

\* the bodies that would change the connection's or the server's state
ChangingBodies ==
    { r \in RequestBodies :
          /\ r.t \in {"Subscribe", "Unsubscribe", "SetBlockFilter", "ClearBlockFilter",
                      "Broadcast", "GetBlockRange"}
          /\ r.addrs \in {{}, Addrs(MAX_FILTER_LEN)}
          /\ r.tx # "bad"
          /\ r.b <= ChainHeight }

\* every request under an ordinary id; the state-changing ones also under the
\* reserved id and with bytes left after the request
RequestFrames ==
    { Binary(Id1, req, FALSE) : req \in RequestBodies }
    \cup { Binary(u32_max_value, req, FALSE) : req \in ChangingBodies }
    \cup { Binary(Id1, req, TRUE) : req \in ChangingBodies }
    \cup { Binary(u32_max_value, Req("Subscribe", 0, 0, {}, ""), TRUE),
           Frame_Text, Binary_Undecodable }

NextRequests ==
    \/ Accept("p1")
    \/ \E m \in RequestFrames : Receive("p1", m)
    \/ ReaderSend("p1")
    \/ WriterForward("p1")
    \/ Disconnect("p1")

SpecRequests == Init /\ [][NextRequests]_vars

----------------------------------------------------------------------------
(* Properties of process_message and handle_request, checked under
   SpecRequests *)

\* the reader of p has just processed a message
FrameStep(p) == ev'.a = "frame" /\ ev'.p = p

\* the request handler and its state are untouched by the step
RequestNotExecuted ==
    /\ filter' = filter
    /\ sub_pool' = sub_pool
    /\ mempool' = mempool
    /\ tasks' = tasks

\* C11 (as claimed): a binary request with the reserved id 0xFFFFFFFF makes
\* the server close the connection with a WebSocket Close frame, as a text
\* frame does.
C11_ReservedIdCloses ==
    [][\A p \in Peers :
          (FrameStep(p) /\ HasReservedId(ev'.m)) => reader'[p].kind = "Close"]_vars

\* C12: a request with id 0xFFFFFFFF is never dispatched: whatever its body,
\* the filter, the subscription pool, the mempool and the streaming tasks are
\* unchanged.
C12_ReservedIdNotDispatched ==
    [][\A p \in Peers :
          (FrameStep(p) /\ HasReservedId(ev'.m)) => RequestNotExecuted]_vars

\* a ClearBlockFilter with the reserved id was processed and the filter is
\* still set
C12_Witness ==
    /\ ev.a = "frame"
    /\ HasReservedId(ev.m)
    /\ ev.m.req.t = "ClearBlockFilter"
    /\ filter["p1"].some

\* C13: a Text frame is answered with a Close frame whose reason is "text is
\* not supported" and is not executed as a request: filter, subscription pool,
\* mempool and streaming tasks are unchanged.
C13_TextClosesWithReason ==
    [][\A p \in Peers :
          (FrameStep(p) /\ ev'.m.kind = "Text") =>
              /\ reader'[p].kind = "Close"
              /\ reader'[p].body.t = "text is not supported"
              /\ RequestNotExecuted]_vars

\* a Text frame was processed on a connection with a filter and a subscription
C13_Witness ==
    /\ ev.a = "frame"
    /\ ev.m.kind = "Text"
    /\ reader["p1"].kind = "Close"
    /\ filter["p1"].some
    /\ "p1" \in sub_pool

\* C14: a binary message holding a request with an ordinary id and bytes left
\* after it is answered with Error(BytesRemaining) on the request's id, and
\* the request is not executed.
C14_BytesRemainingNotExecuted ==
    [][\A p \in Peers :
          (/\ FrameStep(p)
           /\ ev'.m.kind = "Binary" /\ ev'.m.deser = "ok"
           /\ ev'.m.id # <<255, 255, 255, 255>>
           /\ ev'.m.trailing) =>
              /\ reader'[p].kind = "Binary"
              /\ reader'[p].id = ev'.m.id
              /\ reader'[p].body.t = "Error:BytesRemaining"
              /\ RequestNotExecuted]_vars

\* a Subscribe followed by stray bytes was answered and did not subscribe
C14_Witness ==
    /\ ev.a = "frame"
    /\ ev.m.trailing
    /\ ev.m.req.t = "Subscribe"
    /\ ev.m.id = Id1
    /\ reader["p1"].body.t = "Error:BytesRemaining"
    /\ "p1" \notin sub_pool

\* the request r cannot succeed in the current state
Fails(r) ==
    \/ r.t = "Broadcast" /\ r.tx = "bad"
    \/ r.t \in {"GetBlock", "GetFullBlock"} /\ r.a > height
    \/ r.t = "SetBlockFilter" /\ Cardinality(r.addrs) > 16
    \/ r.t = "GetBlockRange" /\ (r.a > r.b \/ r.b > height)

ErrorBodies ==
    {"Error:TxValidation", "Error:InvalidHeight", "Error:InvalidRequest"}

\* C15: a completely deserialized request with an ordinary id, other than a
\* GetBlockRange with an accepted range, gets exactly one binary response
\* carrying the request's id; a failing request gets an Error body on that id.
C15_OneResponseOnSameId ==
    [][\A p \in Peers :
          /\ (/\ FrameStep(p)
              /\ Dispatched(ev'.m)
              /\ ~(ev'.m.req.t = "GetBlockRange" /\ ~Fails(ev'.m.req))) =>
                 /\ reader'[p].kind = "Binary"
                 /\ reader'[p].id = ev'.m.id
                 /\ Fails(ev'.m.req) => reader'[p].body.t \in ErrorBodies
                 /\ chan'[p] = chan[p]
          /\ (ev'.a = "reader_send" /\ ev'.p = p) =>
                 chan'[p] = Append(chan[p], reader[p])]_vars

\* a GetBlock above the chain's height was answered with an error on its id
C15_Witness ==
    /\ ev.a = "frame"
    /\ Dispatched(ev.m)
    /\ ev.m.req.t = "GetBlock"
    /\ ev.m.req.a > height
    /\ reader["p1"].id = Id1
    /\ reader["p1"].body.t = "Error:InvalidHeight"

----------------------------------------------------------------------------
(* SpecSub: two connections, their subscriptions and the minter's blocks *)

SubFrames ==
    { Binary(Id1, Req("Subscribe", 0, 0, {}, ""), FALSE),
      Binary(Id1, Req("Unsubscribe", 0, 0, {}, ""), FALSE),
      Binary(u32_max_value, Req("Subscribe", 0, 0, {}, ""), FALSE) }

NextSub ==
    \/ \E p \in Peers : Accept(p)
    \/ \E p \in Peers, m \in SubFrames : Receive(p, m)
    \/ \E p \in Peers : ReaderSend(p)
    \/ \E p \in Peers : WriterForward(p)
    \/ \E p \in Peers : Disconnect(p)
    \/ InsertBlock

SpecSub == Init /\ [][NextSub]_vars

----------------------------------------------------------------------------
(* Properties of the subscription pool, checked under SpecSub *)

\* the connection of p is open and the last Subscribe or Unsubscribe it had
\* dispatched was a Subscribe
Subscribed(p) == conn[p] = "open" /\ last_sub[p] = "Subscribe"

\* C29: GetBlock(h) answers with the block at h filtered by the connection's
\* filter when one is set and with the full block when none is set;
\* GetFullBlock(h) answers with the unfiltered block whatever the filter; each
\* answers Error(InvalidHeight) exactly when the chain has no block at h; the
\* filter, the subscription, the connection, the chain, the mempool and the
\* streaming tasks are unchanged.
C29_GetBlockAnswers ==
    [][\A p \in Peers :
          (/\ FrameStep(p)
           /\ Dispatched(ev'.m)
           /\ ev'.m.req.t \in {"GetBlock", "GetFullBlock"}) =>
              LET h == ev'.m.req.a
                  body == reader'[p].body
              IN /\ reader'[p].kind = "Binary"
                 /\ (body.t = "Error:InvalidHeight") <=> (h \notin 0..height)
                 /\ h \in 0..height =>
                       /\ body.t = ev'.m.req.t
                       /\ body.h = h
                       /\ body.flt = IF ev'.m.req.t = "GetBlock" THEN filter[p]
                                      ELSE NoFilter
                 /\ RequestNotExecuted
                 /\ conn' = conn /\ height' = height /\ chan' = chan]_vars

\* a GetBlock on a connection with a filter was answered with the block
\* filtered by it
C29_Witness ==
    /\ ev.a = "frame"
    /\ Dispatched(ev.m)
    /\ ev.m.req.t = "GetBlock"
    /\ filter["p1"].some
    /\ reader["p1"].body = Body("GetBlock", ChainHeight, filter["p1"])

\* C16: a peer is in the subscription pool exactly when its connection is
\* open and its most recent dispatched subscription request was Subscribe; no
\* closed connection remains subscribed.
C16_PoolIsOpenSubscribers ==
    \A p \in Peers : p \in sub_pool <=> Subscribed(p)

\* p1 subscribed and its connection has closed; p2 is still subscribed
C16_Witness ==
    /\ conn["p1"] = "closed"
    /\ last_sub["p1"] = "Subscribe"
    /\ "p1" \notin sub_pool
    /\ "p2" \in sub_pool

IsBlockEvent(msg, h) ==
    msg.kind = "Binary" /\ msg.body.t = "Event:Block" /\ msg.body.h = h

\* the step has put exactly one event for the new block on the channel of p
GotOneEvent(p) ==
    /\ Len(chan'[p]) = Len(chan[p]) + 1
    /\ \A i \in 1..Len(chan[p]) : chan'[p][i] = chan[p][i]
    /\ IsBlockEvent(chan'[p][Len(chan'[p])], height')

\* C17 (as claimed): after insert_block(b) every connection subscribed before
\* the call has exactly one Event(Block(b)) more on its outbound channel, and
\* every other connection none.
C17_EverySubscriberGetsOneEvent ==
    [][ev'.a = "insert_block" =>
          \A p \in Peers :
              IF Subscribed(p) THEN GotOneEvent(p) ELSE chan'[p] = chan[p]]_vars

\* C17 (amended): after insert_block(b) every connection subscribed before
\* the call whose outbound channel is not full has exactly one
\* Event(Block(b)) more on its channel; a subscriber whose channel is full
\* has at most one, and a connection that is not subscribed has none.
C17_SubscriberWithRoomGetsOneEvent ==
    [][ev'.a = "insert_block" =>
          \A p \in Peers :
              /\ (Subscribed(p) /\ Len(chan[p]) < ChanCap) => GotOneEvent(p)
              /\ (Subscribed(p) /\ Len(chan[p]) >= ChanCap) =>
                     (GotOneEvent(p) \/ chan'[p] = chan[p])
              /\ ~Subscribed(p) => chan'[p] = chan[p]]_vars

\* a block was inserted: subscriber p1 holds its event, p2 has unsubscribed
\* and holds none
C17_Witness ==
    /\ ev.a = "insert_block"
    /\ Subscribed("p1")
    /\ chan["p1"] # <<>>
    /\ IsBlockEvent(chan["p1"][Len(chan["p1"])], height)
    /\ conn["p2"] = "open"
    /\ last_sub["p2"] = "Unsubscribe"
    /\ \A i \in 1..Len(chan["p2"]) : chan["p2"][i].body.t # "Event:Block"

----------------------------------------------------------------------------
(* SpecStream: one connection, its block range requests and their
   streaming tasks *)

Id2 == <<0, 0, 0, 2>>

StreamFrames ==
    { Binary(Id1, Req("GetBlockRange", 0, ChainHeight, {}, ""), FALSE),
      Binary(Id2, Req("GetBlockRange", ChainHeight, ChainHeight, {}, ""), FALSE),
      Binary(Id2, Req("GetBlockRange", 0, ChainHeight + 1, {}, ""), FALSE),
      Binary(Id2, Req("SetBlockFilter", 0, 0, Addrs(1), ""), FALSE) }

NextStream ==
    \/ Accept("p1")
    \/ \E m \in StreamFrames : Receive("p1", m)
    \/ ReaderSend("p1")
    \/ WriterForward("p1")
    \/ StreamBlock("p1")
    \/ StreamMarker("p1")
    \/ StreamCancel("p1")
    \/ PeerStalls("p1")
    \/ PeerResumes("p1")
    \/ Disconnect("p1")

SpecStream == Init /\ [][NextStream]_vars

----------------------------------------------------------------------------
(* Properties of the block range streaming tasks, checked under SpecStream *)

RECURSIVE Heights(_, _)
\* the heights from a to b in increasing order
Heights(a, b) == IF a > b THEN <<>> ELSE <<a>> \o Heights(a + 1, b)

\* what a task has to place on the channel: its blocks, then the marker
Expected(t) == Heights(t.min, t.max) \o << -1 >>

IsPrefix(a, b) ==
    Len(a) <= Len(b) /\ \A i \in 1..Len(a) : a[i] = b[i]

\* the step is task i of p placing entry x (a height, or -1 for the
\* marker) on the channel, as the last message, under the task's request id
Placed(p, i, x) ==
    /\ tasks'[p][i].sent = Append(tasks[p][i].sent, x)
    /\ Len(chan'[p]) = Len(chan[p]) + 1
    /\ \A j \in 1..Len(chan[p]) : chan'[p][j] = chan[p][j]
    /\ LET msg == chan'[p][Len(chan'[p])] IN
        /\ msg.kind = "Binary"
        /\ msg.id = tasks[p][i].id
        /\ IF x = -1
           THEN msg.body.t = "GetBlockRange"
           ELSE msg.body.t = "GetBlock" /\ msg.body.h = x

\* C19: for an accepted GetBlockRange(min, max) with id i the dispatch
\* returns no response and spawns one task; what the task places on the
\* channel is one block response per height from min to max in increasing
\* order and then one terminal marker, each under id i, the marker never
\* before the last block.
C19_BlocksInOrderThenMarker ==
    [][\A p \in Peers :
          /\ \A i \in 1..Len(tasks'[p]) :
                /\ IsPrefix(tasks'[p][i].sent, Expected(tasks'[p][i]))
                /\ tasks'[p][i].st = "done" <=>
                       tasks'[p][i].sent = Expected(tasks'[p][i])
          /\ (ev'.a \in {"stream_block", "stream_marker"} /\ ev'.p = p) =>
                \E i \in 1..Len(tasks[p]) :
                    /\ \E x \in -1..tasks[p][i].max : Placed(p, i, x)
                    /\ \A j \in 1..Len(tasks[p]) : j # i => tasks'[p][j] = tasks[p][j]
          /\ (/\ FrameStep(p)
              /\ Dispatched(ev'.m)
              /\ ev'.m.req.t = "GetBlockRange"
              /\ ev'.m.req.a <= ev'.m.req.b
              /\ ev'.m.req.b <= height) =>
                /\ reader'[p].kind = ""
                /\ chan'[p] = chan[p]
                /\ Len(tasks'[p]) = Len(tasks[p]) + 1
                /\ tasks'[p][Len(tasks'[p])].id = ev'.m.id
                /\ tasks'[p][Len(tasks'[p])].sent = <<>>]_vars

\* a range of two blocks has been streamed and closed by its marker
C19_Witness ==
    /\ ev.a = "stream_marker"
    /\ Len(tasks["p1"]) >= 1
    /\ tasks["p1"][1].st = "done"
    /\ tasks["p1"][1].min < tasks["p1"][1].max
    /\ tasks["p1"][1].sent = Expected(tasks["p1"][1])

\* C20: a streaming task whose Sender is parked on the full channel places
\* nothing until the receiver has made room, and it neither drops nor
\* reorders a block; once the connection has closed a task places nothing
\* more, and a cancelled task has placed no terminal marker.
C20_BackpressureAndCancel ==
    [][\A p \in Peers :
          \A i \in 1..Len(tasks[p]) :
              /\ [k |-> "blocks", i |-> i] \in {parked[p][j] : j \in 1..Len(parked[p])} =>
                    tasks'[p][i].sent = tasks[p][i].sent
              /\ conn[p] = "closed" => tasks'[p][i].sent = tasks[p][i].sent
              /\ IsPrefix(tasks'[p][i].sent, Expected(tasks'[p][i]))
              /\ tasks'[p][i].st = "cancelled" =>
                    \A j \in 1..Len(tasks'[p][i].sent) : tasks'[p][i].sent[j] # -1]_vars

\* a task that had to wait for the full channel has streamed its whole range
C20_Witness ==
    /\ Len(tasks["p1"]) >= 1
    /\ tasks["p1"][1].waited
    /\ tasks["p1"][1].st = "done"
    /\ tasks["p1"][1].sent = Expected(tasks["p1"][1])

\* a task was cancelled by the close of its connection after its first block
C20_WitnessCancelled ==
    /\ Len(tasks["p1"]) >= 1
    /\ tasks["p1"][1].st = "cancelled"
    /\ Len(tasks["p1"][1].sent) = 1
    /\ conn["p1"] = "closed"

----------------------------------------------------------------------------
(* SpecStart: the server is started on a chain directory and produces blocks *)

Addr1 == ScriptHash(WalletScript)

Addr2 == ScriptHash(OtherScript)

Sigs2 == <<PublicKey("w1"), PublicKey("w4")>>

\* the transaction lists of the blocks handed to insert_block
TxLists ==
    {<<RewardTx(Addr1, 0)>>,
     <<MintTx(Addr1, 100000000, WalletScript, Sigs2), RewardTx(Addr1, 0)>>,
     <<MintTx(Addr1, 0, WalletScript, Sigs2), RewardTx(Addr1, 7)>>,
     <<MintTx(Addr1, 5, WalletScript, <<PublicKey("w1")>>), RewardTx(Addr1, 0)>>,
     <<MintTx(Addr1, 5, WalletScript, <<PublicKey("w1"), PublicKey("w1")>>),
       RewardTx(Addr1, 0)>>,
     <<MintTx(Addr1, 5, WalletScript, <<PublicKey("w1"), PublicKey("w9")>>),
       RewardTx(Addr1, 0)>>,
     <<MintTx(Addr2, 5, OtherScript, <<PublicKey("w9")>>), RewardTx(Addr1, 0)>>,
     <<RewardTx(Addr1, 0), MintTx(Addr1, 5, WalletScript, Sigs2)>>}

NextStart ==
    \/ \E disk \in DiskLedgers, opt \in ReindexOptions, key \in MinterKeys :
          BlockchainNew(disk, opt, key)
    \/ CheckIndex
    \/ Genesis
    \/ StartProduction
    \/ StartServer
    \/ \E txs \in TxLists : ProduceBlock(txs)
    \/ \E txs \in TxLists : InsertUnlinked(txs)

SpecStart == Init /\ [][NextStart]_vars

----------------------------------------------------------------------------
(* Properties of start-up and of the chain, checked under SpecStart *)

Logged(x) == \E i \in 1..Len(boot.log) : boot.log[i] = x

\* the position of the first x in the log
LogPos(x) == CHOOSE i \in 1..Len(boot.log) : boot.log[i] = x /\ \A j \in 1..(i - 1) : boot.log[j] # x

\* the chain found at start was not empty and its index was not complete
FoundUnindexed == boot.pc # "new" /\ ~boot.is_empty /\ boot.found # "Complete"

\* C21: the production loop and the listener never run on a non-empty chain
\* whose index is not Complete; on such a chain reindex comes first when
\* reindex options were given and start-up aborts when they were not; the
\* genesis block is created exactly when the chain was empty at start, and
\* before the production loop.
C21_StartupOrder ==
    /\ (Logged("loop") \/ Logged("listen")) =>
          (is_empty(ledger) \/ ledger.status = "Complete")
    /\ (FoundUnindexed /\ boot.reindex # "absent" /\ Logged("loop")) =>
          (Logged("reindex") /\ LogPos("reindex") < LogPos("loop"))
    /\ (FoundUnindexed /\ boot.reindex = "absent") =>
          (boot.pc \in {"check", "aborted"} /\ ~Logged("loop") /\ ~Logged("listen"))
    /\ boot.pc \in {"minter", "listen", "serving"} => (Logged("genesis") <=> boot.is_empty)
    /\ Logged("genesis") => boot.is_empty
    /\ (Logged("genesis") /\ Logged("loop")) => LogPos("genesis") < LogPos("loop")
    /\ Logged("listen") => (Logged("loop") /\ LogPos("loop") < LogPos("listen"))

C21_Witness ==
    /\ boot.pc = "serving"
    /\ boot.found = "Partial"
    /\ boot.log = <<"reindex", "loop", "listen">>
    /\ ledger.status = "Complete"
    /\ get_chain_height(ledger) = MaxHeight

\* C22: right after create_genesis_block(K) on an empty chain the height is
\* 0, block 0 is present, no block above 0 is present, the owner's minter key
\* is K's public key, the owner script is PUSH FALSE alone and the owner
\* wallet is the hash of the genesis wallet script.
C22_GenesisChain ==
    boot.last.step = "genesis" =>
        /\ get_chain_height(ledger) = 0
        /\ get_block(ledger, 0) # <<>>
        /\ \A h \in 1..(MaxHeight + 1) : get_block(ledger, h) = <<>>
        /\ ledger.owner.minter = PublicKey(boot.key)
        /\ ledger.owner.script = <<"PUSH FALSE">>
        /\ ledger.owner.wallet = ScriptHash(WalletScript)

C22_Witness == boot.last.step = "genesis" /\ boot.key = "k2" /\ boot.is_empty

\* b is a child of the head of l signed by the minter key, holding a MintTx
\* to the owner wallet signed by two distinct genesis wallet keys and then
\* the RewardTx
MintBlock(l, b) ==
    /\ ~is_empty(l)
    /\ b.height = get_chain_height(l) + 1
    /\ b.prev = BlockHash(get_chain_head(l))
    /\ b.signer = l.owner.minter
    /\ Len(b.txs) = 2
    /\ b.txs[1].t = "Mint"
    /\ b.txs[1].to = l.owner.wallet
    /\ ScriptHash(b.txs[1].script) = l.owner.wallet
    /\ Len(b.txs[1].sigs) = 2
    /\ b.txs[1].sigs[1] # b.txs[1].sigs[2]
    /\ \A i \in 1..2 : \E j \in 1..Len(WalletKeys) :
            b.txs[1].sigs[i] = PublicKey(WalletKeys[j])
    /\ b.txs[2].t = "Reward"

\* C23: a MintTx to the owner wallet signed by two distinct genesis wallet
\* keys passes verify_tx, and inserting a block that holds it (a child of
\* the head signed by the minter key, the RewardTx last) adds the minted
\* amount to the token supply and one to the height.
C23_MintRaisesSupply ==
    [][(boot'.last.step = "insert" /\ MintBlock(ledger, boot'.last.block)) =>
          /\ verify_tx(ledger, boot'.last.block.txs[1], FALSE)
          /\ boot'.last.ok
          /\ ledger'.supply = ledger.supply + boot'.last.block.txs[1].amount
          /\ get_chain_height(ledger') = get_chain_height(ledger) + 1]_vars

C23_Witness ==
    /\ boot.last.step = "insert"
    /\ boot.last.ok
    /\ boot.is_empty
    /\ boot.last.block.txs[1].t = "Mint"
    /\ boot.last.block.txs[1].amount = 100000000
    /\ ledger.supply = 100000000
    /\ get_chain_height(ledger) = 1

----------------------------------------------------------------------------
(* SpecAsset: Asset operations on chosen operands *)

SpecAsset == Init /\ [][NextAsset]_vars

----------------------------------------------------------------------------
(* Properties of Asset, checked under SpecAsset *)

\* 1.00000 as an amount: 10^5
OneAsset == Num(FALSE, Pow10(MAX_PRECISION))

\* n / d truncated toward zero is q: the remainder n - q * d is smaller than
\* d and is zero or has the sign of n
IsTruncated(n, d, q) ==
    LET r == Sub(n, Mul(q, d)) IN
    MagLess(r.mag, d.mag) /\ (r = Zero \/ r.neg = n.neg)

\* the product of two assets: a.amount * b.amount / 10^5, truncated
ExactProduct(a, b) == Div(Mul(a, b), OneAsset)

ExactResult(c) ==
    IF c.op = "checked_add" THEN Add(c.a, c.b)
    ELSE IF c.op = "checked_sub" THEN Sub(c.a, c.b)
    ELSE ExactProduct(c.a, c.b)

\* C24: checked_add, checked_sub and checked_mul return None whenever the
\* exact result is above i64::MAX or below i64::MIN.
C24_OutOfRangeIsNone ==
    (calc.op \in {"checked_add", "checked_sub", "checked_mul"} /\ ~InI64(ExactResult(calc)))
        => ~calc.opt.some

\* C25: whenever the result is representable, checked_mul returns the exact
\* product divided by 10^5 and truncated toward zero; the 128-bit product
\* never overflows; checked_mul(a, -b) is the negation of checked_mul(a, b).
C25_MulExactTruncated ==
    calc.op = "checked_mul" =>
        /\ i128_checked_mul(calc.a, calc.b).some
        /\ InI64(ExactProduct(calc.a, calc.b)) =>
              /\ calc.opt.some
              /\ IsTruncated(Mul(calc.a, calc.b), OneAsset, calc.opt.v)
              /\ (InI64(Neg(calc.b)) /\ InI64(Neg(calc.opt.v))) =>
                    checked_mul(calc.a, Neg(calc.b)) = Some(Neg(calc.opt.v))

C25_Witness ==
    /\ calc.op = "checked_mul"
    /\ calc.a = P(<<1, 2, 3, 4, 5, 6, 0, 0>>)
    /\ calc.b = M(<<1, 0, 0, 0, 0, 0, 1, 1, 1, 1, 1>>)
    /\ calc.opt = Some(M(<<1, 2, 3, 4, 5, 6, 1, 3, 7, 1, 7, 1, 9>>))

\* C26 as stated: a quotient q returned by a.checked_div(b) has
\* |q * b - a| < 10^-5, that is |q.amount * b.amount - a.amount * 10^5| < 10^5.
C26_DivErrorBelowOneUnit ==
    (calc.op = "checked_div" /\ calc.opt.some) =>
        MagLess(Sub(Mul(calc.opt.v, calc.b), Mul(calc.a, OneAsset)).mag, OneAsset.mag)

\* C26 amended: a quotient q returned by a.checked_div(b) is a / b truncated
\* toward zero to five decimals: |q * b - a| < |b| * 10^-5 and q * b does
\* not exceed a in magnitude.
C26_DivTruncated ==
    (calc.op = "checked_div" /\ calc.opt.some) =>
        /\ calc.b # Zero
        /\ IsTruncated(Mul(calc.a, OneAsset), calc.b, calc.opt.v)

C26_Witness ==
    /\ calc.op = "checked_div"
    /\ calc.a = P(<<1, 2, 3, 4, 5, 6, 0, 0>>)
    /\ calc.b = P(<<2, 3, 0, 0, 0, 0, 0>>)
    /\ calc.opt = Some(P(<<5, 3, 6, 7, 6, 5>>))

\* C32: checked_div(a, b) returns None only when b is zero or the quotient
\* a.amount * 10^5 / b.amount truncated toward zero is not an i64 value; for
\* every other pair it returns that quotient.
C32_DivNoneOnlyWhenUnrepresentable ==
    (calc.op = "checked_div" /\ calc.b # Zero) =>
        LET q == Div(Mul(calc.a, OneAsset), calc.b) IN
        InI64(q) => calc.opt = Some(q)

\* optional minus sign, at least one integer digit, '.', exactly five
\* fractional digits, one space, the unit symbol
IsCanonical(s) ==
    LET n == Len(s)
        body == Take(s, n - 5)
        t == IF body # <<>> /\ Head(body) = "-" THEN Tail(body) ELSE body
    IN /\ n >= 12
       /\ Drop(s, n - 5) = <<" ">> \o UnitSymbol
       /\ Len(t) >= 7
       /\ t[Len(t) - 5] = "."
       /\ \A i \in 1..Len(t) : i # Len(t) - 5 => IsDigitChar(t[i])

\* C27: to_string gives the canonical string form, and parsing it gives the
\* amount back.
C27_ToStringCanonicalRoundTrip ==
    calc.op = "to_string" => (IsCanonical(calc.s) /\ from_str(calc.s) = Ok(calc.a))

\* the error the precedence of C28 assigns to s, "" when it assigns none
Classified(s) ==
    LET t == trim(s)
        spaces == {i \in 1..Len(t) : t[i] = " "}
        cut == IF spaces = {} THEN Len(t) + 1
               ELSE CHOOSE i \in spaces : \A j \in spaces : i <= j
        tok == Take(t, cut - 1)
        dots == {i \in 1..Len(tok) : tok[i] = "."}
        dot == CHOOSE i \in dots : \A j \in dots : i <= j
    IN IF Len(s) > 26 THEN "StrTooLarge"
       ELSE IF dots = {} \/ Len(tok) - dot # 5 THEN "InvalidFormat"
       ELSE IF ~i64_parse(SelectSeq(tok, LAMBDA c : c # ".")).some THEN "InvalidAmount"
       ELSE IF spaces = {} THEN "InvalidFormat"
       ELSE IF Drop(t, cut) # <<"M", "A", "R", "K">> THEN "InvalidAssetType"
       ELSE ""

\* C28: from_str rejects an input with the error of the precedence
\* StrTooLarge, InvalidFormat (amount shape), InvalidAmount, InvalidFormat
\* (no unit), InvalidAssetType, and rejects every input the precedence names.
C28_ErrorPrecedence ==
    calc.op = "from_str" =>
        /\ ~calc.res.ok => calc.res.kind = Classified(calc.s)
        /\ Classified(calc.s) # "" => ~calc.res.ok

C28_Witness ==
    /\ calc.op = "from_str"
    /\ Len(calc.s) = 27
    /\ Head(calc.s) = "0"
    /\ from_str(Tail(calc.s)).ok
    /\ calc.res = Err("StrTooLarge")

\* the amount token of s: the trimmed input up to its first space
AmountToken(s) ==
    LET t == trim(s)
        spaces == {i \in 1..Len(t) : t[i] = " "}
    IN IF spaces = {} THEN t
       ELSE Take(t, (CHOOSE i \in spaces : \A j \in spaces : i <= j) - 1)

\* optional sign, zero or more digits, exactly one '.', exactly five digits
HasAmountShape(tok) ==
    LET body == IF tok # <<>> /\ Head(tok) \in {"-", "+"} THEN Tail(tok) ELSE tok
        n == Len(body)
    IN /\ n >= 6
       /\ body[n - 5] = "."
       /\ \A i \in 1..n : i # n - 5 => IsDigitChar(body[i])

\* C33: from_str succeeds only on inputs whose amount token has the shape
\* optional sign, zero or more digits, exactly one '.', exactly five digits;
\* a token with two or more '.' is rejected.
C33_SucceedsOnlyOnAmountShape ==
    (calc.op = "from_str" /\ calc.res.ok) => HasAmountShape(AmountToken(calc.s))

====
